---- MODULE Spec2Model ----
(***************************************************************************)
(* chart-buddy: candlestick pattern classifier (supabase edge function     *)
(* pattern-detection), the pattern store (zustand patternStore) and the    *)
(* indicator library (calculateSMA / calculateRSI).                        *)
(*                                                                         *)
(* Numbers.  Prices are integers (model price units).  Every derived       *)
(* quantity the code computes in floating point is computed here as an     *)
(* exact fraction [n, d] with d >= 0; d = 0 encodes what IEEE division     *)
(* by zero produces: n > 0 is +Infinity, n < 0 is -Infinity, n = 0 is NaN. *)
(* Rounding of doubles is not modelled.                                    *)
(***************************************************************************)
EXTENDS Integers, Sequences, FiniteSets, TLC

VARIABLES
    candles,    \* the candle array handed to the classifier
    result,     \* outcome of the last detectPatterns(candles) call
    resp,       \* last HTTP response of the edge function for this array
    runs,       \* number of requests served for this array (capped)
    patterns,   \* patternStore: Map symbol -> PatternSignal[] (most recent first)
    config,     \* patternStore: PatternConfig
    accepted,   \* history: per symbol, the signals stored since its last clear
    nIngest,    \* history: number of addPattern calls so far
    last,       \* history: the last store operation and what it returned
    candleData, \* the chart series handed to the indicator functions
    period,     \* the indicator period
    rsi,        \* the series calculateRSI returned, or NotComputed
    sma,        \* the series calculateSMA returned for the closes, or SmaNotComputed
    macd,       \* what calculateMACD returned and for which periods, or MacdNotComputed
    heap,       \* the Map and array objects the store has created, by address
    root,       \* address of the Map that is state.patterns
    held,       \* the references a reader obtained, with what it saw in them
    chartData,  \* useMarketData: the chart series shown
    lastProcessedPrice, \* useMarketData: the last live price applied, or NoPrice
    isDetecting, \* usePatternDetection: isDetectingRef.current
    request,    \* usePatternDetection: the answers of the invoke calls still awaited
    sockets,    \* useWebSocketPrice: every WebSocket created, in creation order
    wsRef,      \* useWebSocketPrice: wsRef.current, an index of sockets or NoSocket
    reconnectAttempts,   \* useWebSocketPrice: reconnectAttemptsRef.current
    timers,     \* useWebSocketPrice: every reconnect timeout set, in order
    reconnectTimeoutRef, \* useWebSocketPrice: reconnectTimeoutRef.current
    effect,     \* useWebSocketPrice: the current run of the connect effect
    schedule    \* history: the reconnect delays scheduled since the mount

classifierVars == <<candles, result, resp, runs>>
storeVars == <<patterns, config, accepted, nIngest, last, heap, root, held>>
heapVars == <<heap, root, held>>
marketVars == <<chartData, lastProcessedPrice>>
detectorVars == <<isDetecting, request>>
socketVars == <<sockets, wsRef, reconnectAttempts, timers, reconnectTimeoutRef,
                effect, schedule>>
hookVars == <<chartData, lastProcessedPrice, isDetecting, request,
              sockets, wsRef, reconnectAttempts, timers, reconnectTimeoutRef,
              effect, schedule>>
indicatorVars == <<candleData, period, rsi, sma, macd>>
vars == <<candles, result, resp, runs, patterns, config, accepted, nIngest, last,
          candleData, period, rsi, sma, macd, heap, root, held,
          chartData, lastProcessedPrice, isDetecting, request,
          sockets, wsRef, reconnectAttempts, timers, reconnectTimeoutRef,
          effect, schedule>>

-----------------------------------------------------------------------------
(* Fractions *)

R(a, b) == [n |-> a, d |-> b]
I(a) == R(a, 1)
NaN == R(0, 0)
isNaN(a) == a.d = 0 /\ a.n = 0
isFinite(a) == a.d # 0

Times(a, b) == R(a.n * b.n, a.d * b.d)

Plus(a, b) ==
    IF a.d = 0 /\ b.d = 0
    THEN (IF (a.n > 0 /\ b.n > 0) \/ (a.n < 0 /\ b.n < 0) THEN a ELSE NaN)
    ELSE R(a.n * b.d + b.n * a.d, a.d * b.d)

Minus(a, b) == Plus(a, R(-b.n, b.d))

Over(a, b) ==
    LET n == a.n * b.d
        d == a.d * b.n
    IN  IF d < 0 THEN R(-n, -d) ELSE R(n, d)

Lt(a, b) ==
    /\ ~isNaN(a)
    /\ ~isNaN(b)
    /\ IF a.d = 0 /\ b.d = 0 THEN a.n < 0 /\ b.n > 0
       ELSE a.n * b.d < b.n * a.d

Le(a, b) ==
    /\ ~isNaN(a)
    /\ ~isNaN(b)
    /\ IF a.d = 0 /\ b.d = 0 THEN a.n < 0 \/ b.n > 0
       ELSE a.n * b.d <= b.n * a.d

Gt(a, b) == Lt(b, a)
Ge(a, b) == Le(b, a)

\* Math.min: NaN if either argument is NaN
MathMin(a, b) ==
    IF isNaN(a) \/ isNaN(b) THEN NaN
    ELSE IF Lt(b, a) THEN b ELSE a

Abs(x) == IF x < 0 THEN -x ELSE x
Max2(x, y) == IF x > y THEN x ELSE y
Min2(x, y) == IF x < y THEN x ELSE y

-----------------------------------------------------------------------------
(* Candle geometry: pattern-detection/index.ts lines 26-37 *)

bodySize(c) == Abs(c.close - c.open)
upperWick(c) == c.high - Max2(c.open, c.close)
lowerWick(c) == Min2(c.open, c.close) - c.low
isBullish(c) == c.close > c.open
isBearish(c) == c.close < c.open
candleRange(c) == c.high - c.low

RECURSIVE SumBody(_)
SumBody(cs) == IF cs = << >> THEN 0 ELSE bodySize(Head(cs)) + SumBody(Tail(cs))

avgBodySize(cs) ==
    IF Len(cs) = 0 THEN I(0) ELSE R(SumBody(cs), Len(cs))

\* Array.prototype.slice(-k): the last k elements (all of them if fewer)
SliceLast(cs, k) ==
    IF Len(cs) <= k THEN cs ELSE SubSeq(cs, Len(cs) - k + 1, Len(cs))

\* Array.prototype.slice(0, -1)
DropLast(cs) == IF Len(cs) = 0 THEN << >> ELSE SubSeq(cs, 1, Len(cs) - 1)

\* a detector's return value: null is the empty sequence, a result is <<r>>
Null == << >>
Some(r) == <<r>>

PatternResult(name, type, conf, descr) ==
    [patternName |-> name, patternType |-> type, confidence |-> conf,
     description |-> descr]

-----------------------------------------------------------------------------
(* Detectors: pattern-detection/index.ts lines 40-369 *)

dojiSubType(upper, lower, range) ==
    IF Gt(I(upper), I(lower * 3)) /\ Lt(I(lower), Times(I(range), R(1, 10)))
        THEN "Dragonfly"
    ELSE IF Gt(I(lower), I(upper * 3)) /\ Lt(I(upper), Times(I(range), R(1, 10)))
        THEN "Gravestone"
    ELSE IF Gt(I(upper), Times(I(range), R(3, 10)))
            /\ Gt(I(lower), Times(I(range), R(3, 10)))
        THEN "Long-legged"
    ELSE "Standard"

\* variant: the confidence grows with body / range instead of shrinking
detectDoji_bodyRatio(candle, avgBody) ==
    LET body == bodySize(candle)
        range == candleRange(candle)
    IN  IF /\ range > 0
           /\ Lt(Over(I(body), I(range)), R(1, 10))
           /\ Lt(I(body), Times(avgBody, R(2, 10)))
        THEN Some(PatternResult("doji", "neutral",
                Plus(R(7, 10), Times(Over(I(body), I(range)), R(2, 10))),
                <<dojiSubType(upperWick(candle), lowerWick(candle), range),
                  "Doji - Indecision in the market">>))
        ELSE Null

detectDoji(candle, avgBody) ==
    LET body == bodySize(candle)
        range == candleRange(candle)
    IN  IF /\ range > 0
           /\ Lt(Over(I(body), I(range)), R(1, 10))
           /\ Lt(I(body), Times(avgBody, R(2, 10)))
        THEN Some(PatternResult("doji", "neutral",
                Plus(R(7, 10), Times(Minus(I(1), Over(I(body), I(range))), R(2, 10))),
                <<dojiSubType(upperWick(candle), lowerWick(candle), range),
                  "Doji - Indecision in the market">>))
        ELSE Null

\* variant: two prior bars are enough for a downtrend
inDowntrend_twoBars(prevCandles) ==
    /\ Len(prevCandles) >= 2
    /\ LET arr == SliceLast(prevCandles, 3)
       IN  \A i \in 1..Len(arr) : i = 1 \/ arr[i].close < arr[i - 1].close

\* prevCandles.length >= 3 && prevCandles.slice(-3).every(close < previous close)
inDowntrend(prevCandles) ==
    /\ Len(prevCandles) >= 3
    /\ LET arr == SliceLast(prevCandles, 3)
       IN  \A i \in 1..Len(arr) : i = 1 \/ arr[i].close < arr[i - 1].close

\* variant: closes that do not fall count as an uptrend
inUptrend_nonStrict(prevCandles) ==
    /\ Len(prevCandles) >= 3
    /\ LET arr == SliceLast(prevCandles, 3)
       IN  \A i \in 1..Len(arr) : i = 1 \/ arr[i].close >= arr[i - 1].close

\* prevCandles.length >= 3 && prevCandles.slice(-3).every(close > previous close)
inUptrend(prevCandles) ==
    /\ Len(prevCandles) >= 3
    /\ LET arr == SliceLast(prevCandles, 3)
       IN  \A i \in 1..Len(arr) : i = 1 \/ arr[i].close > arr[i - 1].close

hammerShape(body, lower, upper, range, avgBody) ==
    /\ Gt(I(body), Times(avgBody, R(3, 10)))
    /\ lower >= body * 2
    /\ Lt(I(upper), Times(I(body), R(5, 10)))
    /\ Gt(I(range), Times(avgBody, R(5, 10)))

detectHammer(candle, avgBody, prevCandles) ==
    LET body == bodySize(candle)
        lower == lowerWick(candle)
        upper == upperWick(candle)
        range == candleRange(candle)
    IN  IF hammerShape(body, lower, upper, range, avgBody)
        THEN LET confidence ==
                    Plus(Plus(R(65, 100), Over(Over(I(lower), I(body)), I(10))),
                         IF inDowntrend(prevCandles) THEN R(15, 100) ELSE I(0))
             IN  Some(PatternResult("hammer", "bullish",
                        MathMin(confidence, R(95, 100)),
                        <<"Hammer - Potential bullish reversal signal after downtrend">>))
        ELSE Null

detectInvertedHammer(candle, avgBody, prevCandles) ==
    LET body == bodySize(candle)
        lower == lowerWick(candle)
        upper == upperWick(candle)
        range == candleRange(candle)
    IN  IF hammerShape(body, upper, lower, range, avgBody)
        THEN LET confidence ==
                    Plus(Plus(R(6, 10), Over(Over(I(upper), I(body)), I(10))),
                         IF inDowntrend(prevCandles) THEN R(15, 100) ELSE I(0))
             IN  Some(PatternResult("inverted_hammer", "bullish",
                        MathMin(confidence, R(9, 10)),
                        <<"Inverted Hammer - Potential bullish reversal after downtrend">>))
        ELSE Null

detectHangingMan(candle, avgBody, prevCandles) ==
    LET body == bodySize(candle)
        lower == lowerWick(candle)
        upper == upperWick(candle)
        range == candleRange(candle)
    IN  IF hammerShape(body, lower, upper, range, avgBody) /\ inUptrend(prevCandles)
        THEN LET confidence == Plus(R(6, 10), Over(Over(I(lower), I(body)), I(10)))
             IN  Some(PatternResult("hanging_man", "bearish",
                        MathMin(confidence, R(85, 100)),
                        <<"Hanging Man - Potential bearish reversal signal after uptrend">>))
        ELSE Null

engulfingConfidence(currBody, prevBody) ==
    Plus(R(75, 100), MathMin(Over(Over(I(currBody), I(prevBody)), I(10)), R(2, 10)))

\* variant: the body comparison written as currBody >= prevBody * 1.5
detectEngulfing_nonStrict(curr, prev) ==
    LET currBody == bodySize(curr)
        prevBody == bodySize(prev)
    IN  IF /\ isBearish(prev)
           /\ isBullish(curr)
           /\ curr.open < prev.close
           /\ curr.close > prev.open
           /\ Ge(I(currBody), Times(I(prevBody), R(15, 10)))
        THEN Some(PatternResult("bullish_engulfing", "bullish",
                    engulfingConfidence(currBody, prevBody),
                    <<"Bullish Engulfing - Strong reversal signal, buyers taking control">>))
        ELSE IF /\ isBullish(prev)
                /\ isBearish(curr)
                /\ curr.open > prev.close
                /\ curr.close < prev.open
                /\ Ge(I(currBody), Times(I(prevBody), R(15, 10)))
        THEN Some(PatternResult("bearish_engulfing", "bearish",
                    engulfingConfidence(currBody, prevBody),
                    <<"Bearish Engulfing - Strong reversal signal, sellers taking control">>))
        ELSE Null

detectEngulfing(curr, prev) ==
    LET currBody == bodySize(curr)
        prevBody == bodySize(prev)
    IN  IF /\ isBearish(prev)
           /\ isBullish(curr)
           /\ curr.open < prev.close
           /\ curr.close > prev.open
           /\ Gt(I(currBody), Times(I(prevBody), R(15, 10)))
        THEN Some(PatternResult("bullish_engulfing", "bullish",
                    engulfingConfidence(currBody, prevBody),
                    <<"Bullish Engulfing - Strong reversal signal, buyers taking control">>))
        ELSE IF /\ isBullish(prev)
                /\ isBearish(curr)
                /\ curr.open > prev.close
                /\ curr.close < prev.open
                /\ Gt(I(currBody), Times(I(prevBody), R(15, 10)))
        THEN Some(PatternResult("bearish_engulfing", "bearish",
                    engulfingConfidence(currBody, prevBody),
                    <<"Bearish Engulfing - Strong reversal signal, sellers taking control">>))
        ELSE Null

detectHarami(curr, prev) ==
    LET currBody == bodySize(curr)
        prevBody == bodySize(prev)
    IN  IF /\ isBearish(prev)
           /\ isBullish(curr)
           /\ curr.close < prev.open
           /\ curr.open > prev.close
           /\ Lt(I(currBody), Times(I(prevBody), R(5, 10)))
        THEN Some(PatternResult("bullish_harami", "bullish", R(65, 100),
                    <<"Bullish Harami - Potential reversal, momentum weakening">>))
        ELSE IF /\ isBullish(prev)
                /\ isBearish(curr)
                /\ curr.open < prev.close
                /\ curr.close > prev.open
                /\ Lt(I(currBody), Times(I(prevBody), R(5, 10)))
        THEN Some(PatternResult("bearish_harami", "bearish", R(65, 100),
                    <<"Bearish Harami - Potential reversal, momentum weakening">>))
        ELSE Null

detectMorningStar(cs) ==
    IF Len(cs) < 3 THEN Null
    ELSE LET last3 == SliceLast(cs, 3)
             first == last3[1]
             second == last3[2]
             third == last3[3]
         IN  IF /\ isBearish(first)
                /\ bodySize(first) > bodySize(second) * 2
                /\ isBullish(third)
                /\ bodySize(third) > bodySize(second) * 2
                /\ Gt(I(third.close), Over(I(first.open + first.close), I(2)))
                /\ second.close < first.close
                /\ second.close < third.open
             THEN Some(PatternResult("morning_star", "bullish", R(8, 10),
                        <<"Morning Star - Strong bullish reversal pattern">>))
             ELSE Null

detectEveningStar(cs) ==
    IF Len(cs) < 3 THEN Null
    ELSE LET last3 == SliceLast(cs, 3)
             first == last3[1]
             second == last3[2]
             third == last3[3]
         IN  IF /\ isBullish(first)
                /\ bodySize(first) > bodySize(second) * 2
                /\ isBearish(third)
                /\ bodySize(third) > bodySize(second) * 2
                /\ Lt(I(third.close), Over(I(first.open + first.close), I(2)))
                /\ second.close > first.close
                /\ second.close > third.open
             THEN Some(PatternResult("evening_star", "bearish", R(8, 10),
                        <<"Evening Star - Strong bearish reversal pattern">>))
             ELSE Null

\* variant: each bar must open above the previous bar's close
detectThreeWhiteSoldiers_gapUp(cs) ==
    IF Len(cs) < 3 THEN Null
    ELSE LET last3 == SliceLast(cs, 3)
             allBullish == \A i \in 1..3 : isBullish(last3[i])
             progressivelyHigher ==
                \A i \in 1..3 : i = 1 \/ (/\ last3[i].open > last3[i - 1].close
                                          /\ last3[i].close > last3[i - 1].close)
             smallWicks ==
                \A i \in 1..3 : Lt(I(upperWick(last3[i])),
                                   Times(I(bodySize(last3[i])), R(3, 10)))
         IN  IF allBullish /\ progressivelyHigher /\ smallWicks
             THEN Some(PatternResult("three_white_soldiers", "bullish", R(85, 100),
                        <<"Three White Soldiers - Strong bullish continuation/reversal">>))
             ELSE Null

detectThreeWhiteSoldiers(cs) ==
    IF Len(cs) < 3 THEN Null
    ELSE LET last3 == SliceLast(cs, 3)
             allBullish == \A i \in 1..3 : isBullish(last3[i])
             progressivelyHigher ==
                \A i \in 1..3 : i = 1 \/ (/\ last3[i].open > last3[i - 1].open
                                          /\ last3[i].close > last3[i - 1].close)
             smallWicks ==
                \A i \in 1..3 : Lt(I(upperWick(last3[i])),
                                   Times(I(bodySize(last3[i])), R(3, 10)))
         IN  IF allBullish /\ progressivelyHigher /\ smallWicks
             THEN Some(PatternResult("three_white_soldiers", "bullish", R(85, 100),
                        <<"Three White Soldiers - Strong bullish continuation/reversal">>))
             ELSE Null

detectThreeBlackCrows(cs) ==
    IF Len(cs) < 3 THEN Null
    ELSE LET last3 == SliceLast(cs, 3)
             allBearish == \A i \in 1..3 : isBearish(last3[i])
             progressivelyLower ==
                \A i \in 1..3 : i = 1 \/ (/\ last3[i].open < last3[i - 1].open
                                          /\ last3[i].close < last3[i - 1].close)
             smallWicks ==
                \A i \in 1..3 : Lt(I(lowerWick(last3[i])),
                                   Times(I(bodySize(last3[i])), R(3, 10)))
         IN  IF allBearish /\ progressivelyLower /\ smallWicks
             THEN Some(PatternResult("three_black_crows", "bearish", R(85, 100),
                        <<"Three Black Crows - Strong bearish continuation/reversal">>))
             ELSE Null

detectSpinningTop(candle, avgBody) ==
    LET body == bodySize(candle)
        upper == upperWick(candle)
        lower == lowerWick(candle)
        range == candleRange(candle)
    IN  IF /\ Lt(I(body), Times(avgBody, R(5, 10)))
           /\ upper > body
           /\ lower > body
           /\ Gt(I(range), Times(avgBody, R(8, 10)))
        THEN Some(PatternResult("spinning_top", "neutral", R(6, 10),
                    <<"Spinning Top - Indecision, potential trend change">>))
        ELSE Null

detectMarubozu(candle, avgBody) ==
    LET body == bodySize(candle)
        upper == upperWick(candle)
        lower == lowerWick(candle)
        range == candleRange(candle)
    IN  IF /\ Gt(I(body), Times(avgBody, R(15, 10)))
           /\ Lt(I(upper), Times(I(body), R(5, 100)))
           /\ Lt(I(lower), Times(I(body), R(5, 100)))
           /\ Gt(Over(I(body), I(range)), R(95, 100))
        THEN Some(PatternResult("marubozu",
                    IF isBullish(candle) THEN "bullish" ELSE "bearish",
                    Plus(R(7, 10), Times(Over(I(body), I(range)), R(2, 10))),
                    IF isBullish(candle)
                    THEN <<"Bullish Marubozu - Strong buying pressure, no resistance">>
                    ELSE <<"Bearish Marubozu - Strong selling pressure, no support">>))
        ELSE Null

-----------------------------------------------------------------------------
(* detectPatterns: pattern-detection/index.ts lines 372-421 *)

\* variant: a result pushed twice
Push_twice(acc, r) == acc \o r \o r

\* if (r) patterns.push(r)
Push(acc, r) == acc \o r

Returned(ps) == [status |-> "returned", patterns |-> ps]
Threw == [status |-> "threw", patterns |-> << >>]
NotRun == [status |-> "none", patterns |-> << >>]

\* variant: marubozu evaluated after the two-candle rules
detectAll_reordered(cs) ==
    LET avgBody == avgBodySize(SliceLast(cs, 20))
        current == cs[Len(cs)]
        prev == cs[Len(cs) - 1]
        prevCandles == DropLast(cs)
        p1 == Push(<< >>, detectDoji(current, avgBody))
        p2 == Push(p1, detectHammer(current, avgBody, prevCandles))
        p3 == Push(p2, detectInvertedHammer(current, avgBody, prevCandles))
        p4 == Push(p3, detectHangingMan(current, avgBody, prevCandles))
        p5 == Push(p4, detectSpinningTop(current, avgBody))
        p6 == Push(p5, detectEngulfing(current, prev))
        p7 == Push(p6, detectHarami(current, prev))
        p8 == Push(p7, detectMarubozu(current, avgBody))
        p9 == Push(p8, detectMorningStar(cs))
        p10 == Push(p9, detectEveningStar(cs))
        p11 == Push(p10, detectThreeWhiteSoldiers(cs))
        p12 == Push(p11, detectThreeBlackCrows(cs))
    IN  Returned(p12)

\* the body of detectPatterns after its length guard
detectAll(cs) ==
    LET avgBody == avgBodySize(SliceLast(cs, 20))
        current == cs[Len(cs)]
        prev == cs[Len(cs) - 1]
        prevCandles == DropLast(cs)
        p1 == Push(<< >>, detectDoji(current, avgBody))
        p2 == Push(p1, detectHammer(current, avgBody, prevCandles))
        p3 == Push(p2, detectInvertedHammer(current, avgBody, prevCandles))
        p4 == Push(p3, detectHangingMan(current, avgBody, prevCandles))
        p5 == Push(p4, detectSpinningTop(current, avgBody))
        p6 == Push(p5, detectMarubozu(current, avgBody))
        p7 == Push(p6, detectEngulfing(current, prev))
        p8 == Push(p7, detectHarami(current, prev))
        p9 == Push(p8, detectMorningStar(cs))
        p10 == Push(p9, detectEveningStar(cs))
        p11 == Push(p10, detectThreeWhiteSoldiers(cs))
        p12 == Push(p11, detectThreeBlackCrows(cs))
    IN  Returned(p12)

\* variant: the length guard written as candles.length < 2
detectPatterns_guard2(cs) ==
    IF Len(cs) < 2 THEN Returned(<< >>) ELSE detectAll(cs)

detectPatterns(cs) ==
    IF Len(cs) < 3 THEN Returned(<< >>) ELSE detectAll(cs)

-----------------------------------------------------------------------------
(* patternStore.ts: state and configuration *)

PatternNames == {
    "doji", "hammer", "inverted_hammer", "hanging_man",
    "bullish_engulfing", "bearish_engulfing",
    "bullish_harami", "bearish_harami",
    "morning_star", "evening_star",
    "three_white_soldiers", "three_black_crows",
    "piercing_line", "dark_cloud_cover",
    "spinning_top", "marubozu"
}

DEFAULT_CONFIG ==
    [minConfidence |-> R(6, 10),
     enabledPatterns |-> PatternNames,
     showBullish |-> TRUE,
     showBearish |-> TRUE,
     showNeutral |-> TRUE,
     maxPatterns |-> 100,
     alertOnHighConfidence |-> TRUE,
     highConfidenceThreshold |-> R(85, 100)]

\* a JavaScript Map as a function on its key set
EmptyMap == [k \in {} |-> << >>]
MapSet(m, k, v) == [x \in (DOMAIN m) \cup {k} |-> IF x = k THEN v ELSE m[x]]
MapDelete(m, k) == [x \in (DOMAIN m) \ {k} |-> m[x]]
\* patterns.get(symbol) || []
Get(m, k) == IF k \in DOMAIN m THEN m[k] ELSE << >>

\* Array.prototype.slice(0, n) for any integer n
Slice0(xs, n) ==
    LET end == IF n < 0 THEN Max2(Len(xs) + n, 0) ELSE Min2(n, Len(xs))
    IN  SubSeq(xs, 1, end)

NotComputed == << [time |-> 0, value |-> NaN, computed |-> FALSE] >>

SmaNotComputed == << [n |-> 0, d |-> 0, computed |-> FALSE] >>

MacdNotComputed == [computed |-> FALSE]

IndicatorsIdle ==
    /\ candleData = << >>
    /\ period = 1
    /\ rsi = NotComputed
    /\ sma = SmaNotComputed
    /\ macd = MacdNotComputed

Symbols == {"BTC/USD", "ETH/USD"}
Timeframes == {"1h"}

NoOp == [op |-> "none"]

\* objects by identity: a Map object holds, per key, the address of an array
MapObject(entries) == [kind |-> "Map", entries |-> entries]
ArrayObject(items) == [kind |-> "Array", items |-> items]
NoSnapshot == [mapRef |-> 0, listRef |-> 0]

\* patterns: new Map(), nothing read yet
HeapIdle ==
    /\ heap = <<MapObject(EmptyMap)>>
    /\ root = 1
    /\ held = NoSnapshot

\* lastProcessedPrice = useRef(null)
NoPrice == << >>

\* isDetectingRef = useRef(false), and no invoke awaiting its response
NoRequest == << >>

DetectorIdle ==
    /\ isDetecting = FALSE
    /\ request = NoRequest

\* wsRef = useRef(null), reconnectTimeoutRef = useRef(null)
NoSocket == 0
NoTimer == 0

\* the connect effect has not run
NotMounted == [run |-> 0, mounted |-> FALSE]

\* no reconnect scheduled, and nothing has reset the attempt counter
NoSchedule == [delays |-> << >>, pristine |-> TRUE]

\* useWebSocketPrice before its first effect
SocketIdle ==
    /\ sockets = << >>
    /\ wsRef = NoSocket
    /\ reconnectAttempts = 0
    /\ timers = << >>
    /\ reconnectTimeoutRef = NoTimer
    /\ effect = NotMounted
    /\ schedule = NoSchedule

\* the hooks before anything was loaded
HooksIdle ==
    /\ chartData = << >>
    /\ lastProcessedPrice = NoPrice
    /\ DetectorIdle
    /\ SocketIdle

StoreIdle ==
    /\ patterns = EmptyMap
    /\ config = DEFAULT_CONFIG
    /\ accepted = [s \in Symbols |-> << >>]
    /\ nIngest = 0
    /\ last = NoOp
    /\ HeapIdle

-----------------------------------------------------------------------------
(* Inputs of the classifier *)

MaxLen == 4

Bar(o, h, l, c) == [open |-> o, high |-> h, low |-> l, close |-> c]

\* Candle shapes offered to the classifier, on a price grid 0..3.  The last
\* two violate high >= max(open, close) / low <= min(open, close).
Bars == {
    Bar(0, 1, 0, 0),    \* zero body at the bottom of the grid
    Bar(3, 3, 2, 3),    \* zero body at the top of the grid
    Bar(1, 2, 0, 1),    \* zero body, wicks on both sides
    Bar(2, 3, 0, 3),    \* small bullish body on top of a long lower wick
    Bar(1, 3, 0, 0),    \* small bearish body under a long upper wick
    Bar(0, 3, 0, 3),    \* full-range bullish body
    Bar(3, 3, 0, 0),    \* full-range bearish body
    Bar(2, 2, 1, 1),    \* small bearish body, no wicks
    Bar(1, 2, 1, 2),    \* small bullish body, no wicks
    Bar(0, 1, 0, 1),    \* small bullish body at the bottom
    Bar(3, 3, 2, 2),    \* small bearish body at the top
    Bar(0, 1, 1, 2),    \* malformed: high = low inside the body (range 0)
    Bar(0, 2, 0, 3)     \* malformed: high below the close
}

Candle(b, ts) ==
    [open |-> b.open, high |-> b.high, low |-> b.low, close |-> b.close,
     timestamp |-> ts]

NoResp == [status |-> 0]

ClassifierIdle ==
    /\ candles = << >>
    /\ result = NotRun
    /\ resp = NoResp
    /\ runs = 0

InitClassifier ==
    /\ ClassifierIdle
    /\ HooksIdle
    /\ StoreIdle
    /\ IndicatorsIdle

\* the chart series grows by one candle; earlier outcomes were for the old array
AppendCandle(b) ==
    /\ Len(candles) < MaxLen
    /\ candles' = Append(candles, Candle(b, Len(candles) + 1))
    /\ result' = NotRun
    /\ resp' = NoResp
    /\ runs' = 0
    /\ UNCHANGED storeVars
    /\ UNCHANGED hookVars
    /\ UNCHANGED indicatorVars

Classify ==
    /\ result' = detectPatterns(candles)
    /\ UNCHANGED <<candles, resp, runs>>
    /\ UNCHANGED storeVars
    /\ UNCHANGED hookVars
    /\ UNCHANGED indicatorVars

NextClassify ==
    \/ \E b \in Bars : AppendCandle(b)
    \/ Classify

SpecClassify == InitClassifier /\ [][NextClassify]_vars

\* Quoted prices: a model price unit is 0.05, so 100.05 is Px(100, 1)
Px(whole, twentieths) == whole * 20 + twentieths

BarAt(o, h, l, c) == Bar(Px(o, 0), Px(h, 0), Px(l, 0), Px(c, 0))

BearTen == BarAt(110, 110, 100, 100)        \* bearish, body 10
BullThirteen == BarAt(99, 112, 99, 112)     \* bullish, body 13, wraps BearTen
BullFifteen == BarAt(99, 114, 99, 114)      \* bullish, body 15 = 1.5 * 10
BullSixteen == BarAt(99, 115, 99, 115)      \* bullish, body 16
NearDoji == Bar(Px(100, 0), Px(101, 0), Px(99, 0), Px(100, 1))  \* close 100.05
BullNearFive == Bar(Px(100, 0), Px(105, 0), Px(100, 0), Px(104, 19)) \* body 4.95
Soldier1 == BarAt(100, 105, 100, 105)
Soldier2 == BarAt(105, 111, 105, 111)
Soldier3 == BarAt(111, 118, 111, 118)
Soldier3Wick == BarAt(111, 124, 111, 121)   \* upper wick 3 = 0.3 * body 10

\* Candles at quoted prices around the thresholds of the engulfing, doji
\* and three-white-soldiers rules
QuotedBars ==
    {BearTen, BullThirteen, BullFifteen, BullSixteen, NearDoji, BullNearFive,
     Soldier1, Soldier2, Soldier3, Soldier3Wick}

NextQuoted ==
    \/ \E b \in QuotedBars : AppendCandle(b)
    \/ Classify

SpecQuoted == InitClassifier /\ [][NextQuoted]_vars

-----------------------------------------------------------------------------
(* The edge function's request handler: pattern-detection/index.ts 423-477 *)

MaxClock == 1
Clock == 0..MaxClock

\* candle shapes used when the handler is exercised
ServeBars == {
    Bar(1, 2, 0, 1), Bar(2, 3, 0, 3), Bar(0, 3, 0, 3),
    Bar(3, 3, 0, 0), Bar(2, 2, 1, 1), Bar(1, 2, 1, 2)
}

\* the template string `${symbol}-${timestamp}-${patternName}-${i}` as a tuple
SignalId(symbol, timestamp, name, i) == <<symbol, timestamp, name, i>>

\* variant: the id built from the detection time instead of the candle time
withMeta_idFromNow(p, i, symbol, timeframe, lastCandle, now) ==
    [id |-> SignalId(symbol, now, p.patternName, i),
     patternName |-> p.patternName,
     patternType |-> p.patternType,
     confidence |-> p.confidence,
     description |-> p.description,
     symbol |-> symbol,
     timeframe |-> timeframe,
     timestamp |-> lastCandle.timestamp,
     price |-> lastCandle.close,
     high |-> lastCandle.high,
     low |-> lastCandle.low,
     detectedAt |-> now]

\* one element of patternsWithMeta; i is the 0-based index within the batch.
\* Date.now() is read once per request.
withMeta(p, i, symbol, timeframe, lastCandle, now) ==
    [id |-> SignalId(symbol, lastCandle.timestamp, p.patternName, i),
     patternName |-> p.patternName,
     patternType |-> p.patternType,
     confidence |-> p.confidence,
     description |-> p.description,
     symbol |-> symbol,
     timeframe |-> timeframe,
     timestamp |-> lastCandle.timestamp,
     price |-> lastCandle.close,
     high |-> lastCandle.high,
     low |-> lastCandle.low,
     detectedAt |-> now]

serveResponse(cs, symbol, timeframe, now) ==
    IF Len(cs) < 3
    THEN [status |-> 400, error |-> "At least 3 candles required for pattern detection"]
    ELSE LET r == detectPatterns(cs)
             lastCandle == cs[Len(cs)]
         IN  IF r.status = "threw"
             THEN [status |-> 500, error |-> "Unknown error"]
             ELSE [status |-> 200,
                   patterns |-> [i \in 1..Len(r.patterns) |->
                        withMeta(r.patterns[i], i - 1, symbol, timeframe, lastCandle, now)],
                   symbol |-> symbol,
                   timeframe |-> timeframe,
                   candleCount |-> Len(cs),
                   timestamp |-> now]

Serve(symbol, timeframe, now) ==
    /\ resp' = serveResponse(candles, symbol, timeframe, now)
    /\ runs' = IF runs < 2 THEN runs + 1 ELSE runs
    /\ UNCHANGED <<candles, result>>
    /\ UNCHANGED storeVars
    /\ UNCHANGED hookVars
    /\ UNCHANGED indicatorVars

NextServe ==
    \/ \E b \in ServeBars : AppendCandle(b)
    \/ \E symbol \in Symbols, timeframe \in Timeframes, now \in Clock :
            Serve(symbol, timeframe, now)

SpecServe == InitClassifier /\ [][NextServe]_vars

-----------------------------------------------------------------------------
(* Properties of the classifier *)

Classified == result.status # "none"

\* C1: for every candle array of length 0, 1 or 2, detectPatterns returns the
\* empty list and does not throw.
C1_ShortInputEmpty ==
    (Classified /\ Len(candles) < 3) => result = Returned(<< >>)

\* two candles on which a two-candle rule would fire, classified
C1_Witness ==
    /\ Len(candles) = 2
    /\ result.status = "returned"
    /\ detectEngulfing(candles[2], candles[1]) # Null

\* the ceiling of each rule's confidence
Cap(name) ==
    CASE name = "hammer" -> R(95, 100)
      [] name = "inverted_hammer" -> R(9, 10)
      [] name = "hanging_man" -> R(85, 100)
      [] name = "doji" -> R(9, 10)
      [] name = "marubozu" -> R(9, 10)
      [] name \in {"bullish_engulfing", "bearish_engulfing"} -> R(95, 100)
      [] OTHER -> I(1)

\* C7: every signal detectPatterns returns, malformed bars included, has a
\* confidence within [0, cap] of its rule, hence within [0, 1].
C7_ConfidenceWithinCap ==
    Classified =>
        \A i \in 1..Len(result.patterns) :
            /\ Le(I(0), result.patterns[i].confidence)
            /\ Le(result.patterns[i].confidence, Cap(result.patterns[i].patternName))

\* position of a rule in the evaluation order
Rank(name) ==
    CASE name = "doji" -> 1
      [] name = "hammer" -> 2
      [] name = "inverted_hammer" -> 3
      [] name = "hanging_man" -> 4
      [] name = "spinning_top" -> 5
      [] name = "marubozu" -> 6
      [] name \in {"bullish_engulfing", "bearish_engulfing"} -> 7
      [] name \in {"bullish_harami", "bearish_harami"} -> 8
      [] name = "morning_star" -> 9
      [] name = "evening_star" -> 10
      [] name = "three_white_soldiers" -> 11
      [] name = "three_black_crows" -> 12
      [] OTHER -> 0

\* what rule k returns on its own for the array cs (Len(cs) >= 3)
RuleAlone(k, cs) ==
    LET avgBody == avgBodySize(SliceLast(cs, 20))
        current == cs[Len(cs)]
        prev == cs[Len(cs) - 1]
        prevCandles == DropLast(cs)
    IN  CASE k = 1 -> detectDoji(current, avgBody)
          [] k = 2 -> detectHammer(current, avgBody, prevCandles)
          [] k = 3 -> detectInvertedHammer(current, avgBody, prevCandles)
          [] k = 4 -> detectHangingMan(current, avgBody, prevCandles)
          [] k = 5 -> detectSpinningTop(current, avgBody)
          [] k = 6 -> detectMarubozu(current, avgBody)
          [] k = 7 -> detectEngulfing(current, prev)
          [] k = 8 -> detectHarami(current, prev)
          [] k = 9 -> detectMorningStar(cs)
          [] k = 10 -> detectEveningStar(cs)
          [] k = 11 -> detectThreeWhiteSoldiers(cs)
          [] OTHER -> detectThreeBlackCrows(cs)

\* C9: the pattern names of the output follow the fixed evaluation order, and
\* a rule's signal is in the output exactly when that rule fires on its own.
C9_FixedOrderIndependentRules ==
    (Classified /\ Len(candles) >= 3) =>
        LET out == result.patterns
        IN  /\ \A i \in 1..Len(out) : Rank(out[i].patternName) \in 1..12
            /\ \A i, j \in 1..Len(out) :
                    i < j => Rank(out[i].patternName) < Rank(out[j].patternName)
            /\ \A k \in 1..12 :
                    /\ RuleAlone(k, candles) # Null =>
                            \E i \in 1..Len(out) : out[i] = RuleAlone(k, candles)[1]
                    /\ RuleAlone(k, candles) = Null =>
                            \A i \in 1..Len(out) : Rank(out[i].patternName) # k

\* an output in which a one-candle rule and a two-candle rule co-occur
C9_Witness ==
    /\ result.status = "returned"
    /\ Len(result.patterns) >= 2
    /\ \E i \in 1..Len(result.patterns) : Rank(result.patterns[i].patternName) = 6
    /\ \E i \in 1..Len(result.patterns) : Rank(result.patterns[i].patternName) = 7

\* a second request for the same array, symbol and timeframe
IsRerun ==
    /\ candles' = candles
    /\ resp.status = 200
    /\ resp'.status = 200
    /\ runs' = 2
    /\ resp'.symbol = resp.symbol
    /\ resp'.timeframe = resp.timeframe

\* C8 as stated: a second run on the unchanged array returns the same
\* PatternSignal records, field for field.
C8_RerunIdentical ==
    [][IsRerun => resp'.patterns = resp.patterns]_vars

Undated(sig) == [sig EXCEPT !.detectedAt = 0]

\* C8 amended: a second run on the unchanged array returns the same records
\* in the same order, equal in every field other than detectedAt.
C8_RerunIdenticalButDetectedAt ==
    [][IsRerun =>
        /\ Len(resp'.patterns) = Len(resp.patterns)
        /\ \A i \in 1..Len(resp.patterns) :
                Undated(resp'.patterns[i]) = Undated(resp.patterns[i])]_vars

\* the handler has answered twice for one array, with signals in the answer
C8_Witness ==
    /\ runs = 2
    /\ resp.status = 200
    /\ Len(resp.patterns) >= 2

-----------------------------------------------------------------------------
(* patternStore.ts: operations, lines 105-200 *)

DedupWindow == 60000
OneHour == 3600000

\* variant: the window taken in seconds
isDuplicate_seconds(symbolPatterns, pattern) ==
    \E i \in 1..Len(symbolPatterns) :
        /\ symbolPatterns[i].patternName = pattern.patternName
        /\ Abs(symbolPatterns[i].detectedAt - pattern.detectedAt) < 60

\* variant: only an entry detected at the same instant counts
isDuplicate_sameInstant(symbolPatterns, pattern) ==
    \E i \in 1..Len(symbolPatterns) :
        /\ symbolPatterns[i].patternName = pattern.patternName
        /\ symbolPatterns[i].detectedAt = pattern.detectedAt

\* symbolPatterns.some(same patternName within one minute)
isDuplicate(symbolPatterns, pattern) ==
    \E i \in 1..Len(symbolPatterns) :
        /\ symbolPatterns[i].patternName = pattern.patternName
        /\ Abs(symbolPatterns[i].detectedAt - pattern.detectedAt) < DedupWindow

\* variant: the list kept ordered by detectedAt, latest first
updated_byDetectedAt(pattern, symbolPatterns, maxPatterns) ==
    LET Later(p) == p.detectedAt > pattern.detectedAt
        NotLater(p) == ~(p.detectedAt > pattern.detectedAt)
    IN  Slice0(SelectSeq(symbolPatterns, Later) \o <<pattern>>
                    \o SelectSeq(symbolPatterns, NotLater), maxPatterns)

\* variant: the new signal appended instead of prepended
updated_appended(pattern, symbolPatterns, maxPatterns) ==
    Slice0(symbolPatterns \o <<pattern>>, maxPatterns)

\* [pattern, ...symbolPatterns].slice(0, state.config.maxPatterns)
updated(pattern, symbolPatterns, maxPatterns) ==
    Slice0(<<pattern>> \o symbolPatterns, maxPatterns)

\* the Map addPattern's set() callback returns
addPattern(statePatterns, stateConfig, pattern) ==
    LET symbolPatterns == Get(statePatterns, pattern.symbol)
    IN  IF ~isDuplicate(symbolPatterns, pattern)
        THEN MapSet(statePatterns, pattern.symbol,
                    updated(pattern, symbolPatterns, stateConfig.maxPatterns))
        ELSE statePatterns

\* config: { ...state.config, ...config }
setConfig(stateConfig, update) ==
    [k \in (DOMAIN stateConfig) \cup (DOMAIN update) |->
        IF k \in DOMAIN update THEN update[k] ELSE stateConfig[k]]

\* the omitted (or empty, hence falsy) symbol argument of clearPatterns
NoSymbol == ""

\* variant: the symbol argument ignored
clearPatterns_all(statePatterns, symbol) == EmptyMap

clearPatterns(statePatterns, symbol) ==
    IF symbol # NoSymbol THEN MapDelete(statePatterns, symbol) ELSE EmptyMap

\* variant: the confidence floor applied strictly
passesFilter_strict(p, cfg) ==
    IF Le(p.confidence, cfg.minConfidence) THEN FALSE
    ELSE IF p.patternName \notin cfg.enabledPatterns THEN FALSE
    ELSE IF p.patternType = "bullish" /\ ~cfg.showBullish THEN FALSE
    ELSE IF p.patternType = "bearish" /\ ~cfg.showBearish THEN FALSE
    ELSE IF p.patternType = "neutral" /\ ~cfg.showNeutral THEN FALSE
    ELSE TRUE

\* the callback of patterns.filter in getFilteredPatterns
passesFilter(p, cfg) ==
    IF Lt(p.confidence, cfg.minConfidence) THEN FALSE
    ELSE IF p.patternName \notin cfg.enabledPatterns THEN FALSE
    ELSE IF p.patternType = "bullish" /\ ~cfg.showBullish THEN FALSE
    ELSE IF p.patternType = "bearish" /\ ~cfg.showBearish THEN FALSE
    ELSE IF p.patternType = "neutral" /\ ~cfg.showNeutral THEN FALSE
    ELSE TRUE

getFilteredPatterns(statePatterns, stateConfig, symbol) ==
    LET Keep(p) == passesFilter(p, stateConfig)
    IN  SelectSeq(Get(statePatterns, symbol), Keep)

RECURSIVE SumConfidence(_)
SumConfidence(ps) ==
    IF ps = << >> THEN I(0)
    ELSE Plus(SumConfidence(SubSeq(ps, 1, Len(ps) - 1)), ps[Len(ps)].confidence)

\* variant: the one-hour boundary included
lastHour_inclusive(ps, now) ==
    LET Recent(p) == p.detectedAt >= now - OneHour
    IN  SelectSeq(ps, Recent)

\* patterns.filter((p) => p.detectedAt > Date.now() - 3600000)
lastHour(ps, now) ==
    LET Recent(p) == p.detectedAt > now - OneHour
    IN  SelectSeq(ps, Recent)

getAnalytics(statePatterns, symbol, now) ==
    LET ps == Get(statePatterns, symbol)
        lastHourPatterns == lastHour(ps, now)
        Bullish(p) == p.patternType = "bullish"
        Bearish(p) == p.patternType = "bearish"
        Neutral(p) == p.patternType = "neutral"
        totalConfidence == SumConfidence(ps)
    IN  [totalDetected |-> Len(ps),
         bullishCount |-> Len(SelectSeq(ps, Bullish)),
         bearishCount |-> Len(SelectSeq(ps, Bearish)),
         neutralCount |-> Len(SelectSeq(ps, Neutral)),
         averageConfidence |->
            IF Len(ps) > 0 THEN Over(totalConfidence, I(Len(ps))) ELSE I(0),
         patternsPerHour |-> Len(lastHourPatterns),
         lastHourPatterns |-> lastHourPatterns]

-----------------------------------------------------------------------------
(* The store as a state machine *)

MaxIngest == 3
MaxReadIngest == 2
MaxKeep == 2

KindHammer ==
    PatternResult("hammer", "bullish", R(95, 100),
        <<"Hammer - Potential bullish reversal signal after downtrend">>)
KindDoji ==
    PatternResult("doji", "neutral", R(9, 10),
        <<"Standard", "Doji - Indecision in the market">>)
KindHangingMan ==
    PatternResult("hanging_man", "bearish", R(8, 10),
        <<"Hanging Man - Potential bearish reversal signal after uptrend">>)
Kinds == {KindHammer, KindDoji, KindHangingMan}

\* detection times around the one-minute window
DetectTimes == {0, DedupWindow - 1, DedupWindow}

\* Date.now() values at which analytics are read
ReadTimes == {DedupWindow, OneHour, OneHour + DedupWindow - 1}

SignalCandle == Candle(Bar(2, 3, 0, 3), 3)

\* signals handed to addPattern: every kind and time for one symbol, one
\* signal for the other
IngestSignals ==
    {withMeta(k, 0, "BTC/USD", "1h", SignalCandle, t) : k \in Kinds, t \in DetectTimes}
    \cup {withMeta(KindHammer, 0, "ETH/USD", "1h", SignalCandle, 0)}

\* configurations with the history bound within reach
KeepConfigs == {[DEFAULT_CONFIG EXCEPT !.maxPatterns = m] : m \in 1..MaxKeep}

\* configurations that differ in their filters
FilterConfigs == {
    [DEFAULT_CONFIG EXCEPT !.maxPatterns = MaxKeep],
    [DEFAULT_CONFIG EXCEPT !.maxPatterns = MaxKeep, !.minConfidence = R(9, 10)],
    [DEFAULT_CONFIG EXCEPT !.maxPatterns = MaxKeep,
                           !.enabledPatterns = PatternNames \ {"doji"},
                           !.showBearish = FALSE],
    [DEFAULT_CONFIG EXCEPT !.maxPatterns = MaxKeep, !.showBullish = FALSE,
                           !.showNeutral = FALSE]
}

InitStore ==
    /\ ClassifierIdle
    /\ HooksIdle
    /\ IndicatorsIdle
    /\ patterns = EmptyMap
    /\ config \in KeepConfigs
    /\ accepted = [s \in Symbols |-> << >>]
    /\ nIngest = 0
    /\ last = NoOp
    /\ HeapIdle

InitStoreRead ==
    /\ ClassifierIdle
    /\ HooksIdle
    /\ IndicatorsIdle
    /\ patterns = EmptyMap
    /\ config \in FilterConfigs
    /\ accepted = [s \in Symbols |-> << >>]
    /\ nIngest = 0
    /\ last = NoOp
    /\ HeapIdle

AddPattern(pattern, bound) ==
    /\ nIngest < bound
    /\ nIngest' = nIngest + 1
    /\ patterns' = addPattern(patterns, config, pattern)
    /\ LET kept == ~isDuplicate(Get(patterns, pattern.symbol), pattern)
       IN  /\ accepted' = IF kept
                THEN [accepted EXCEPT ![pattern.symbol] = Append(@, pattern)]
                ELSE accepted
           /\ last' = [op |-> "addPattern", arg |-> pattern, kept |-> kept]
    /\ UNCHANGED config
    /\ UNCHANGED classifierVars
    /\ UNCHANGED hookVars
    /\ UNCHANGED heapVars
    /\ UNCHANGED indicatorVars

ClearPatterns(symbol) ==
    /\ patterns' = clearPatterns(patterns, symbol)
    /\ accepted' = [s \in Symbols |->
            IF symbol = NoSymbol \/ s = symbol THEN << >> ELSE accepted[s]]
    /\ last' = [op |-> "clearPatterns", symbol |-> symbol,
                removed |-> IF symbol = NoSymbol THEN Cardinality(DOMAIN patterns)
                            ELSE Len(Get(patterns, symbol))]
    /\ UNCHANGED <<config, nIngest>>
    /\ UNCHANGED classifierVars
    /\ UNCHANGED hookVars
    /\ UNCHANGED heapVars
    /\ UNCHANGED indicatorVars

GetFilteredPatterns(symbol) ==
    /\ last' = [op |-> "getFilteredPatterns", symbol |-> symbol,
                value |-> getFilteredPatterns(patterns, config, symbol)]
    /\ UNCHANGED <<patterns, config, accepted, nIngest>>
    /\ UNCHANGED classifierVars
    /\ UNCHANGED hookVars
    /\ UNCHANGED heapVars
    /\ UNCHANGED indicatorVars

GetAnalytics(symbol, now) ==
    /\ last' = [op |-> "getAnalytics", symbol |-> symbol, now |-> now,
                value |-> getAnalytics(patterns, symbol, now)]
    /\ UNCHANGED <<patterns, config, accepted, nIngest>>
    /\ UNCHANGED classifierVars
    /\ UNCHANGED hookVars
    /\ UNCHANGED heapVars
    /\ UNCHANGED indicatorVars

NextStore ==
    \/ \E p \in IngestSignals : AddPattern(p, MaxIngest)
    \/ \E symbol \in Symbols : ClearPatterns(symbol)
    \/ ClearPatterns(NoSymbol)

SpecStore == InitStore /\ [][NextStore]_vars

\* the store as created, with DEFAULT_CONFIG
InitStoreDefault ==
    /\ ClassifierIdle
    /\ HooksIdle
    /\ IndicatorsIdle
    /\ StoreIdle

SpecStoreDefault == InitStoreDefault /\ [][NextStore]_vars

NextStoreRead ==
    \/ \E p \in IngestSignals : AddPattern(p, MaxReadIngest)
    \/ \E symbol \in Symbols : ClearPatterns(symbol)
    \/ ClearPatterns(NoSymbol)
    \/ \E symbol \in Symbols : GetFilteredPatterns(symbol)
    \/ \E symbol \in Symbols, now \in ReadTimes : GetAnalytics(symbol, now)

SpecStoreRead == InitStoreRead /\ [][NextStoreRead]_vars

\* Partial<PatternConfig> values handed to setConfig: history bounds at and
\* below zero and within reach, thresholds inside and outside [0, 1]
ConfigUpdates ==
    {[maxPatterns |-> m] : m \in (-1)..MaxKeep}
    \cup {[minConfidence |-> c] : c \in {R(9, 10), R(15, 10)}}
    \cup {[highConfidenceThreshold |-> c] : c \in {R(-1, 10), R(85, 100)}}

SetConfig(update) ==
    /\ config' = setConfig(config, update)
    /\ last' = [op |-> "setConfig", arg |-> update]
    /\ UNCHANGED <<patterns, accepted, nIngest>>
    /\ UNCHANGED classifierVars
    /\ UNCHANGED hookVars
    /\ UNCHANGED heapVars
    /\ UNCHANGED indicatorVars

NextStoreConfig ==
    \/ \E p \in IngestSignals : AddPattern(p, MaxReadIngest)
    \/ \E symbol \in Symbols : ClearPatterns(symbol)
    \/ ClearPatterns(NoSymbol)
    \/ \E update \in ConfigUpdates : SetConfig(update)

SpecStoreConfig == InitStore /\ [][NextStoreConfig]_vars

-----------------------------------------------------------------------------
(* The store's objects by identity: which Map and which arrays each         *)
(* operation creates, and which it writes to                               *)

MaxHeap == 6

\* the Map's contents with every array address replaced by the array
Deref(h, r) == [k \in DOMAIN h[r].entries |-> h[h[r].entries[k]].items]

\* addPattern: new Map(state.patterns), [pattern, ...symbolPatterns].slice(..),
\* newPatterns.set(..); returns the heap and the address of newPatterns
addPatternObjects(h, r, stateConfig, pattern) ==
    LET entries == h[r].entries
        newPatterns == Len(h) + 1
        symbolPatterns == IF pattern.symbol \in DOMAIN entries
                          THEN h[entries[pattern.symbol]].items ELSE << >>
    IN  IF ~isDuplicate(symbolPatterns, pattern)
        THEN [heap |-> h \o <<MapObject(MapSet(entries, pattern.symbol, Len(h) + 2)),
                               ArrayObject(updated(pattern, symbolPatterns,
                                                   stateConfig.maxPatterns))>>,
              root |-> newPatterns]
        ELSE [heap |-> Append(h, MapObject(entries)), root |-> newPatterns]

\* variant: delete / clear applied to state.patterns itself
clearPatternsObjects_inPlace(h, r, symbol) ==
    [heap |-> [h EXCEPT ![r] = MapObject(IF symbol # NoSymbol
                                         THEN MapDelete(h[r].entries, symbol)
                                         ELSE EmptyMap)],
     root |-> r]

\* clearPatterns: new Map(state.patterns), then delete(symbol) or clear() on it
clearPatternsObjects(h, r, symbol) ==
    [heap |-> Append(h, MapObject(IF symbol # NoSymbol
                                  THEN MapDelete(h[r].entries, symbol)
                                  ELSE EmptyMap)),
     root |-> Len(h) + 1]

\* two detection hooks on one symbol, told apart by their timeframe
ProducerTimeframes == {"1h", "4h"}

SharedSignals ==
    {withMeta(k, 0, "BTC/USD", tf, SignalCandle, t) :
        k \in {KindHammer, KindDoji}, tf \in ProducerTimeframes, t \in {0, DedupWindow}}
    \cup {withMeta(KindHammer, 0, "ETH/USD", "1h", SignalCandle, 0)}

InitSnapshot ==
    /\ ClassifierIdle
    /\ HooksIdle
    /\ IndicatorsIdle
    /\ patterns = EmptyMap
    /\ config \in KeepConfigs
    /\ accepted = [s \in Symbols |-> << >>]
    /\ nIngest = 0
    /\ last = NoOp
    /\ HeapIdle

\* addPattern, with the objects it creates
AddPatternObjects(pattern) ==
    /\ Len(heap) + 2 <= MaxHeap
    /\ nIngest' = nIngest + 1
    /\ patterns' = addPattern(patterns, config, pattern)
    /\ LET o == addPatternObjects(heap, root, config, pattern)
       IN  heap' = o.heap /\ root' = o.root
    /\ LET kept == ~isDuplicate(Get(patterns, pattern.symbol), pattern)
       IN  /\ accepted' = IF kept
                THEN [accepted EXCEPT ![pattern.symbol] = Append(@, pattern)]
                ELSE accepted
           /\ last' = [op |-> "addPattern", arg |-> pattern, kept |-> kept]
    /\ UNCHANGED <<config, held>>
    /\ UNCHANGED classifierVars
    /\ UNCHANGED hookVars
    /\ UNCHANGED indicatorVars

\* clearPatterns, with the object it creates
ClearPatternsObjects(symbol) ==
    /\ Len(heap) + 1 <= MaxHeap
    /\ patterns' = clearPatterns(patterns, symbol)
    /\ LET o == clearPatternsObjects(heap, root, symbol)
       IN  heap' = o.heap /\ root' = o.root
    /\ accepted' = [s \in Symbols |->
            IF symbol = NoSymbol \/ s = symbol THEN << >> ELSE accepted[s]]
    /\ last' = [op |-> "clearPatterns", symbol |-> symbol,
                removed |-> IF symbol = NoSymbol THEN Cardinality(DOMAIN patterns)
                            ELSE Len(Get(patterns, symbol))]
    /\ UNCHANGED <<config, nIngest, held>>
    /\ UNCHANGED classifierVars
    /\ UNCHANGED hookVars
    /\ UNCHANGED indicatorVars

\* getPatterns: get().patterns.get(symbol) || []; the reader keeps the Map it
\* read from and the array it was given (a fresh [] has no address here)
GetPatterns(symbol) ==
    /\ LET entries == heap[root].entries
           listRef == IF symbol \in DOMAIN entries THEN entries[symbol] ELSE 0
           value == IF listRef # 0 THEN heap[listRef].items ELSE << >>
       IN  /\ held' = [mapRef |-> root, mapSeen |-> heap[root],
                       listRef |-> listRef, listSeen |-> value, symbol |-> symbol]
           /\ last' = [op |-> "getPatterns", symbol |-> symbol, value |-> value]
    /\ UNCHANGED <<patterns, config, accepted, nIngest, heap, root>>
    /\ UNCHANGED classifierVars
    /\ UNCHANGED hookVars
    /\ UNCHANGED indicatorVars

NextSnapshot ==
    \/ \E p \in SharedSignals : AddPatternObjects(p)
    \/ \E symbol \in Symbols : ClearPatternsObjects(symbol)
    \/ ClearPatternsObjects(NoSymbol)
    \/ \E symbol \in Symbols : GetPatterns(symbol)

SpecSnapshot == InitSnapshot /\ [][NextSnapshot]_vars

-----------------------------------------------------------------------------
(* usePatternDetection: periodic detection feeding the store *)

MinChart == 10
PollInterval == 30000
MaxPolls == 2

\* chart series of MinChart candles: quiet bars followed by three bars that
\* vary, timestamps 1, 2, ...
ChartSeries ==
    {[k \in 1..MinChart |->
        Candle(IF k <= MinChart - 3 THEN Bar(1, 2, 1, 2) ELSE tail[k - (MinChart - 3)], k)] :
        tail \in [1..3 -> ServeBars]}

InitPipeline ==
    /\ candles \in ChartSeries
    /\ result = NotRun
    /\ resp = NoResp
    /\ runs = 0
    /\ patterns = EmptyMap
    /\ config \in KeepConfigs
    /\ accepted = [s \in Symbols |-> << >>]
    /\ nIngest = 0
    /\ last = NoOp
    /\ HeapIdle
    /\ HooksIdle
    /\ IndicatorsIdle

\* the interval timer fires for the runs-th time, at runs * PollInterval ms:
\* detectPatterns() returns early while a request is in flight or the chart
\* is short, and otherwise invokes the edge function with the last 50 candles
Poll(symbol, timeframe) ==
    /\ runs <= MaxPolls
    /\ runs' = runs + 1
    /\ resp' = IF Len(candles) < MinChart \/ resp # NoResp THEN resp
               ELSE serveResponse(SliceLast(candles, 50), symbol, timeframe,
                                  runs * PollInterval)
    /\ UNCHANGED <<candles, result>>
    /\ UNCHANGED storeVars
    /\ UNCHANGED hookVars
    /\ UNCHANGED indicatorVars

RECURSIVE forEachAddPattern(_, _, _)
\* validPatterns.forEach((pattern) => addPattern(pattern)), with the log of
\* the signals that were stored
forEachAddPattern(st, cfg, ps) ==
    IF ps = << >> THEN st
    ELSE LET pattern == Head(ps)
             kept == ~isDuplicate(Get(st.patterns, pattern.symbol), pattern)
         IN  forEachAddPattern(
                [patterns |-> addPattern(st.patterns, cfg, pattern),
                 accepted |-> IF kept
                    THEN [st.accepted EXCEPT ![pattern.symbol] = Append(@, pattern)]
                    ELSE st.accepted],
                cfg, Tail(ps))

\* the awaited invoke resolves: patterns of confidence >= config.minConfidence
\* are added to the store in order, and the in-flight flag is released
IngestResponse ==
    /\ resp # NoResp
    /\ LET Valid(p) == Ge(p.confidence, config.minConfidence)
           validPatterns == IF resp.status = 200 THEN SelectSeq(resp.patterns, Valid)
                            ELSE << >>
           st == forEachAddPattern([patterns |-> patterns, accepted |-> accepted],
                                   config, validPatterns)
       IN  /\ patterns' = st.patterns
           /\ accepted' = st.accepted
           /\ nIngest' = nIngest + Len(validPatterns)
           /\ last' = [op |-> "ingestResponse", batch |-> validPatterns]
    /\ resp' = NoResp
    /\ UNCHANGED <<candles, result, runs, config>>
    /\ UNCHANGED heapVars
    /\ UNCHANGED hookVars
    /\ UNCHANGED indicatorVars

NextPipeline ==
    \/ \E symbol \in Symbols, timeframe \in Timeframes : Poll(symbol, timeframe)
    \/ IngestResponse

SpecPipeline == InitPipeline /\ [][NextPipeline]_vars

-----------------------------------------------------------------------------
(* Properties of the store *)

Near(a, b) ==
    /\ a.patternName = b.patternName
    /\ Abs(a.detectedAt - b.detectedAt) < DedupWindow

C3_BoundedHistory ==
    \A s \in Symbols :
        Len(accepted[s]) > config.maxPatterns =>
            LET stored == Get(patterns, s)
                n == Len(accepted[s])
            IN  /\ Len(stored) = config.maxPatterns
                /\ \A i \in 1..config.maxPatterns : stored[i] = accepted[s][n - i + 1]

\* a list of at least two entries from which an older one has been evicted
C3_Witness ==
    \E s \in Symbols :
        /\ config.maxPatterns >= 2
        /\ Len(accepted[s]) > config.maxPatterns

\* C25: addPattern of a signal for symbol S leaves every other symbol's
\* history and the configuration unchanged; when the signal is stored it is
\* the head of S's list and the entries behind it are the previous ones in
\* their previous order.
C25_AddPatternFrame ==
    [][(last'.op = "addPattern" /\ nIngest' = nIngest + 1) =>
        LET p == last'.arg
            old == Get(patterns, p.symbol)
            new == Get(patterns', p.symbol)
        IN  /\ config' = config
            /\ \A o \in Symbols \ {p.symbol} :
                    /\ Get(patterns', o) = Get(patterns, o)
                    /\ (o \in DOMAIN patterns') = (o \in DOMAIN patterns)
            /\ last'.kept =>
                    /\ Len(new) >= 1
                    /\ new[1] = p
                    /\ Len(new) - 1 <= Len(old)
                    /\ \A i \in 2..Len(new) : new[i] = old[i - 1]
            /\ ~last'.kept => new = old]_vars

\* a signal detected earlier than one already stored for its symbol was
\* stored in front of the two entries the list held
C25_Witness ==
    /\ last.op = "addPattern"
    /\ last.kept
    /\ Len(Get(patterns, last.arg.symbol)) = 3
    /\ patterns[last.arg.symbol][1] = last.arg
    /\ patterns[last.arg.symbol][2].detectedAt > last.arg.detectedAt
    /\ patterns[last.arg.symbol][3].patternName # patterns[last.arg.symbol][2].patternName

\* C6: clearPatterns(symbol) empties that symbol's history and leaves the
\* other histories and the configuration as they were; clearPatterns()
\* empties every history and leaves the configuration as it was.
C6_ClearFrame ==
    [][last'.op = "clearPatterns" =>
        /\ config' = config
        /\ IF last'.symbol # NoSymbol
           THEN /\ Get(patterns', last'.symbol) = << >>
                /\ \A o \in Symbols \ {last'.symbol} :
                        Get(patterns', o) = Get(patterns, o)
           ELSE \A o \in Symbols : Get(patterns', o) = << >>]_vars

\* one symbol's non-empty history was cleared while another symbol had one
C6_Witness ==
    /\ last.op = "clearPatterns"
    /\ last.symbol \in Symbols
    /\ last.removed > 0
    /\ \E o \in Symbols \ {last.symbol} : Get(patterns, o) # << >>

Visible(type, cfg) ==
    /\ type = "bullish" => cfg.showBullish
    /\ type = "bearish" => cfg.showBearish
    /\ type = "neutral" => cfg.showNeutral

Passes(p, cfg) ==
    /\ Ge(p.confidence, cfg.minConfidence)
    /\ p.patternName \in cfg.enabledPatterns
    /\ Visible(p.patternType, cfg)

\* the subsequence of xs at the index set keep
Restrict(xs, keep) ==
    [j \in 1..Cardinality(keep) |->
        xs[CHOOSE i \in keep : Cardinality({k \in keep : k <= i}) = j]]

\* C4: getFilteredPatterns returns exactly the stored signals of the symbol
\* with confidence >= minConfidence, an enabled patternName and a visible
\* patternType, in stored order, and changes neither histories nor config.
C4_QueryFilters ==
    [][last'.op = "getFilteredPatterns" =>
        /\ patterns' = patterns
        /\ config' = config
        /\ LET stored == Get(patterns, last'.symbol)
               keep == {i \in 1..Len(stored) : Passes(stored[i], config)}
           IN  last'.value = Restrict(stored, keep)]_vars

\* a query that kept some stored signals and filtered out others
C4_Witness ==
    /\ last.op = "getFilteredPatterns"
    /\ Len(last.value) >= 1
    /\ Len(last.value) < Len(Get(patterns, last.symbol))

CountType(ps, type) == Cardinality({i \in 1..Len(ps) : ps[i].patternType = type})

\* C5: getAnalytics reports totalDetected = length of the stored list, type
\* counts that add up to it, averageConfidence 0 for an empty list, and
\* patternsPerHour = number of stored signals with detectedAt > now - 3600000.
C5_Analytics ==
    last.op = "getAnalytics" =>
        LET stored == Get(patterns, last.symbol)
            a == last.value
        IN  /\ a.totalDetected = Len(stored)
            /\ a.bullishCount = CountType(stored, "bullish")
            /\ a.bearishCount = CountType(stored, "bearish")
            /\ a.neutralCount = CountType(stored, "neutral")
            /\ a.bullishCount + a.bearishCount + a.neutralCount = a.totalDetected
            /\ (stored = << >> => a.averageConfidence = I(0))
            /\ a.patternsPerHour = Cardinality({i \in 1..Len(stored) :
                    stored[i].detectedAt > last.now - OneHour})
            /\ a.patternsPerHour <= a.totalDetected

\* analytics over a list of which only a part falls within the last hour
C5_Witness ==
    /\ last.op = "getAnalytics"
    /\ last.value.totalDetected >= 2
    /\ last.value.patternsPerHour >= 1
    /\ last.value.patternsPerHour < last.value.totalDetected

-----------------------------------------------------------------------------
(* Indicator library: calculateSMA (lines 4-15), calculateRSI (lines 38-68) *)

RECURSIVE SumFrom(_, _, _)
\* data.slice(lo - 1, hi).reduce((a, b) => a + b, 0), 1-based bounds
SumFrom(data, lo, hi) ==
    IF lo > hi THEN 0 ELSE data[lo] + SumFrom(data, lo + 1, hi)

\* variant: the window taken one entry too long
calculateSMA_longWindow(data, p) ==
    [k \in 1..Len(data) |->
        IF k - 1 < p - 1 THEN NaN
        ELSE R(SumFrom(data, Max2(k - p, 1), k), p)]

\* index k below is 1-based: k = i + 1 for the code's loop index i
calculateSMA(data, p) ==
    [k \in 1..Len(data) |->
        IF k - 1 < p - 1 THEN NaN
        ELSE R(SumFrom(data, k - p + 1, k), p)]

\* variant: 50 substituted whenever the average loss is zero
rsiValueAt_zeroLoss50(avgGain, avgLoss) ==
    IF isNaN(avgLoss) \/ avgLoss.n = 0 THEN I(50)
    ELSE Minus(I(100), Over(I(100), Plus(I(1), Over(avgGain, avgLoss))))

\* rs = avgGain / avgLoss; 100 - 100 / (1 + rs); isFinite(rsiValue) ? rsiValue : 50
rsiValueAt(avgGain, avgLoss) ==
    LET rs == Over(avgGain, avgLoss)
        rsiValue == Minus(I(100), Over(I(100), Plus(I(1), rs)))
    IN  IF isFinite(rsiValue) THEN rsiValue ELSE I(50)

calculateRSI(data, p) ==
    LET closes == [k \in 1..Len(data) |-> data[k].close]
        changes == [k \in 1..(Len(closes) - 1) |-> closes[k + 1] - closes[k]]
        gains == [k \in 1..Len(changes) |-> IF changes[k] > 0 THEN changes[k] ELSE 0]
        losses == [k \in 1..Len(changes) |-> IF changes[k] < 0 THEN -changes[k] ELSE 0]
        avgGains == calculateSMA(gains, p)
        avgLosses == calculateSMA(losses, p)
    IN  [k \in 1..Len(data) |->
            IF k - 1 < p
            THEN [time |-> data[k].time, value |-> NaN]
            ELSE [time |-> data[k].time,
                  value |-> rsiValueAt(avgGains[k - 1], avgLosses[k - 1])]]

RECURSIVE Gcd(_, _)
Gcd(a, b) == IF b = 0 THEN a ELSE Gcd(b, a % b)

\* the same number in lowest terms (Infinity and NaN as they are)
Lowest(a) ==
    IF a.d = 0 THEN a
    ELSE LET g == Gcd(Abs(a.n), a.d) IN R(a.n \div g, a.d \div g)

RECURSIVE SumSeq(_, _)
\* data.slice(0, k).reduce((a, b) => a + b, 0)
SumSeq(data, k) ==
    IF k = 0 THEN I(0) ELSE Lowest(Plus(SumSeq(data, k - 1), data[k]))

\* one EMA step: (data[i] - ema[i - 1]) * multiplier + ema[i - 1]
emaStep(x, before, multiplier) ==
    Lowest(Plus(Times(Minus(x, before), multiplier), before))

RECURSIVE emaLoop(_, _, _, _)
\* the loop of calculateEMA with ema holding the entries pushed so far
emaLoop(data, p, firstSMA, ema) ==
    IF Len(ema) = Len(data) THEN ema
    ELSE LET i == Len(ema)
         IN  emaLoop(data, p, firstSMA,
                Append(ema,
                    IF i < p - 1 THEN NaN
                    ELSE IF i = p - 1 THEN firstSMA
                    ELSE emaStep(data[i + 1], ema[i], R(2, p + 1))))

calculateEMA(data, p) ==
    emaLoop(data, p, Lowest(Over(SumSeq(data, Min2(p, Len(data))), I(p))), << >>)

\* variant: the signal line computed over the unfiltered macd line
calculateMACD_unfiltered(data, fastPeriod, slowPeriod, signalPeriod) ==
    LET closes == [k \in 1..Len(data) |-> I(data[k].close)]
        fastEMA == calculateEMA(closes, fastPeriod)
        slowEMA == calculateEMA(closes, slowPeriod)
        macdLine == [k \in 1..Len(closes) |-> Lowest(Minus(fastEMA[k], slowEMA[k]))]
        signalLine == calculateEMA(macdLine, signalPeriod)
        paddedSignal == [k \in 1..(Len(macdLine) - Len(signalLine)) |-> NaN] \o signalLine
    IN  [macd |-> [k \in 1..Len(data) |-> [time |-> data[k].time, value |-> macdLine[k]]],
         signal |-> [k \in 1..Len(data) |->
                        [time |-> data[k].time, value |-> paddedSignal[k]]],
         histogram |-> [k \in 1..Len(data) |->
                LET histValue == Lowest(Minus(macdLine[k], paddedSignal[k]))
                IN  [time |-> data[k].time, value |-> histValue,
                     color |-> IF Ge(histValue, I(0)) THEN "green" ELSE "red"]]]

calculateMACD(data, fastPeriod, slowPeriod, signalPeriod) ==
    LET closes == [k \in 1..Len(data) |-> I(data[k].close)]
        fastEMA == calculateEMA(closes, fastPeriod)
        slowEMA == calculateEMA(closes, slowPeriod)
        macdLine == [k \in 1..Len(closes) |-> Lowest(Minus(fastEMA[k], slowEMA[k]))]
        Valid(v) == ~isNaN(v)
        signalLine == calculateEMA(SelectSeq(macdLine, Valid), signalPeriod)
        paddedSignal == [k \in 1..(Len(macdLine) - Len(signalLine)) |-> NaN] \o signalLine
    IN  [macd |-> [k \in 1..Len(data) |-> [time |-> data[k].time, value |-> macdLine[k]]],
         signal |-> [k \in 1..Len(data) |->
                        [time |-> data[k].time, value |-> paddedSignal[k]]],
         histogram |-> [k \in 1..Len(data) |->
                LET histValue == Lowest(Minus(macdLine[k], paddedSignal[k]))
                IN  [time |-> data[k].time, value |-> histValue,
                     color |-> IF Ge(histValue, I(0)) THEN "green" ELSE "red"]]]

MaxSeries == 4
MaxPeriod == 2
Closes == {1, 2, 3}

\* every series of at most MaxSeries bars closing on the grid, times 1, 2, ...
SeriesInputs ==
    UNION {[1..n -> Closes] : n \in 0..MaxSeries}

InitIndicators ==
    /\ ClassifierIdle
    /\ HooksIdle
    /\ StoreIdle
    /\ \E cs \in SeriesInputs :
            candleData = [k \in 1..Len(cs) |-> [time |-> k, close |-> cs[k]]]
    /\ period \in 1..MaxPeriod
    /\ rsi = NotComputed
    /\ sma = SmaNotComputed
    /\ macd = MacdNotComputed

CalculateRSI ==
    /\ rsi' = calculateRSI(candleData, period)
    /\ UNCHANGED <<candleData, period, sma, macd>>
    /\ UNCHANGED classifierVars
    /\ UNCHANGED hookVars
    /\ UNCHANGED storeVars

\* calculateSMA(closes, period) for the closing prices of the chart series
CalculateSMA ==
    /\ sma' = calculateSMA([k \in 1..Len(candleData) |-> candleData[k].close], period)
    /\ UNCHANGED <<candleData, period, rsi, macd>>
    /\ UNCHANGED classifierVars
    /\ UNCHANGED hookVars
    /\ UNCHANGED storeVars

\* calculateMACD(candleData, fastPeriod, slowPeriod, signalPeriod)
CalculateMACD(fastPeriod, slowPeriod, signalPeriod) ==
    /\ macd' = [computed |-> TRUE, fastPeriod |-> fastPeriod,
                slowPeriod |-> slowPeriod, signalPeriod |-> signalPeriod,
                out |-> calculateMACD(candleData, fastPeriod, slowPeriod, signalPeriod)]
    /\ UNCHANGED <<candleData, period, rsi, sma>>
    /\ UNCHANGED classifierVars
    /\ UNCHANGED hookVars
    /\ UNCHANGED storeVars

NextIndicators == CalculateRSI \/ CalculateSMA

SpecIndicators == InitIndicators /\ [][NextIndicators]_vars

InitMACD == InitIndicators /\ period = 1

NextMACD ==
    \E fastPeriod, slowPeriod, signalPeriod \in 1..MaxPeriod :
        CalculateMACD(fastPeriod, slowPeriod, signalPeriod)

SpecMACD == InitMACD /\ [][NextMACD]_vars

-----------------------------------------------------------------------------
(* Properties of the indicators *)

Eq(a, b) == ~isNaN(a) /\ ~isNaN(b) /\ a.d # 0 /\ b.d # 0 /\ a.n * b.d = b.n * a.d

RsiComputed == rsi # NotComputed

\* the closes of the period + 1 bars ending at bar k never fall
NoLossAt(k) == \A j \in (k - period + 1)..k : candleData[j].close >= candleData[j - 1].close
SomeGainAt(k) == \E j \in (k - period + 1)..k : candleData[j].close > candleData[j - 1].close
AllGainsAt(k) == \A j \in (k - period + 1)..k : candleData[j].close > candleData[j - 1].close

SmaComputed == sma # SmaNotComputed

RECURSIVE SumCloses(_, _)
\* sum of the closes of bars lo..hi of the chart series, taken from the end
SumCloses(lo, hi) ==
    IF hi < lo THEN 0 ELSE candleData[hi].close + SumCloses(lo, hi - 1)

\* C11: for 1 <= period <= len(series) the SMA has the length of the series,
\* its first period - 1 entries are NaN, and every later entry i is the
\* arithmetic mean of series[i-period+1..i] (mean * period = window sum).
C11_SmaAligned ==
    (SmaComputed /\ period >= 1 /\ period <= Len(candleData)) =>
        /\ Len(sma) = Len(candleData)
        /\ \A k \in 1..(period - 1) : isNaN(sma[k])
        /\ \A k \in period..Len(candleData) :
                /\ isFinite(sma[k])
                /\ sma[k].n * period = sma[k].d * SumCloses(k - period + 1, k)

\* an SMA computed with a sentinel prefix and at least two means of unequal closes
C11_Witness ==
    /\ SmaComputed
    /\ period >= 2
    /\ Len(candleData) >= period + 1
    /\ candleData[1].close # candleData[Len(candleData)].close
    /\ isNaN(sma[1])
    /\ isFinite(sma[Len(sma)])

-----------------------------------------------------------------------------
(* useMarketData: the chart series and the live price (part_012 187-236) *)

\* variant: the high simply follows the price
applyLivePrice_highFollows(prevData, price) ==
    IF Len(prevData) = 0 THEN prevData
    ELSE [prevData EXCEPT ![Len(prevData)] =
            [@ EXCEPT !.close = price,
                      !.high = price,
                      !.low = Min2(@, price)]]

\* the updater handed to setChartData: a copy of prevData whose last candle
\* is a copy with close, high and low reassigned
applyLivePrice(prevData, price) ==
    IF Len(prevData) = 0 THEN prevData
    ELSE [prevData EXCEPT ![Len(prevData)] =
            [@ EXCEPT !.close = price,
                      !.high = Max2(@, price),
                      !.low = Min2(@, price)]]

ChartBars == {Bar(1, 2, 1, 2), Bar(2, 3, 1, 3), Bar(2, 2, 1, 1)}
LivePrices == 0..4

\* chart series of at most MaxSeries candles, times 1, 2, ...
ChartInputs ==
    UNION {{[k \in 1..n |->
                [time |-> k, open |-> bs[k].open, high |-> bs[k].high,
                 low |-> bs[k].low, close |-> bs[k].close]] :
            bs \in [1..n -> ChartBars]} : n \in 0..MaxSeries}

InitMarket ==
    /\ ClassifierIdle
    /\ StoreIdle
    /\ IndicatorsIdle
    /\ chartData \in ChartInputs
    /\ lastProcessedPrice = NoPrice
    /\ DetectorIdle
    /\ SocketIdle

\* fetchData resolves: setChartData(data)
FetchData(data) ==
    /\ chartData' = data
    /\ UNCHANGED lastProcessedPrice
    /\ UNCHANGED detectorVars
    /\ UNCHANGED socketVars
    /\ UNCHANGED classifierVars
    /\ UNCHANGED storeVars
    /\ UNCHANGED indicatorVars

\* the effect on [livePrice, chartData.length] with livePrice.price = price
LivePriceEffect(price) ==
    /\ IF Len(chartData) = 0 \/ lastProcessedPrice = <<price>>
       THEN UNCHANGED <<chartData, lastProcessedPrice>>
       ELSE /\ lastProcessedPrice' = <<price>>
            /\ chartData' = applyLivePrice(chartData, price)
    /\ UNCHANGED detectorVars
    /\ UNCHANGED socketVars
    /\ UNCHANGED classifierVars
    /\ UNCHANGED storeVars
    /\ UNCHANGED indicatorVars

NextMarket ==
    \/ \E data \in ChartInputs : FetchData(data)
    \/ \E price \in LivePrices : LivePriceEffect(price)

SpecMarket == InitMarket /\ [][NextMarket]_vars

\* a live price was applied in this step
PriceApplied == lastProcessedPrice' # lastProcessedPrice

\* C24: a live-price update changes only the last candle, setting close to
\* the price, high to max(high, price) and low to min(low, price); the
\* length, every earlier candle and the last candle's open and time stay,
\* and nothing is applied to an empty series.
C24_LivePriceFrame ==
    [][PriceApplied =>
        LET n == Len(chartData)
            price == lastProcessedPrice'[1]
        IN  /\ n > 0
            /\ Len(chartData') = n
            /\ \A k \in 1..(n - 1) : chartData'[k] = chartData[k]
            /\ chartData'[n].open = chartData[n].open
            /\ chartData'[n].time = chartData[n].time
            /\ chartData'[n].close = price
            /\ chartData'[n].high =
                    (IF chartData[n].high > price THEN chartData[n].high ELSE price)
            /\ chartData'[n].low =
                    (IF chartData[n].low < price THEN chartData[n].low ELSE price)]_vars

\* a series of several candles whose last candle took a price below its
\* high and below its open
C24_Witness ==
    /\ Len(chartData) >= 2
    /\ lastProcessedPrice # NoPrice
    /\ chartData[Len(chartData)].close = lastProcessedPrice[1]
    /\ chartData[Len(chartData)].high > chartData[Len(chartData)].close
    /\ chartData[Len(chartData)].open > chartData[Len(chartData)].close
    /\ chartData[Len(chartData)].low = chartData[Len(chartData)].close

-----------------------------------------------------------------------------
(* Properties of single rules at quoted prices *)

Fires(name) == \E i \in 1..Len(result.patterns) : result.patterns[i].patternName = name

Shape(c) == <<c.open, c.high, c.low, c.close>>
IsBar(c, b) == Shape(c) = Shape(b)

Curr == candles[Len(candles)]
Prev == candles[Len(candles) - 1]

\* C12: bullish_engulfing is reported exactly when prev is bearish, curr is
\* bullish, curr.open < prev.close, curr.close > prev.open and
\* currBody > 1.5 * prevBody; prev 110->100 with curr 99->112 does not fire.
C12_BullishEngulfingExact ==
    (Classified /\ Len(candles) >= 3) =>
        /\ Fires("bullish_engulfing") <=>
                /\ Prev.close < Prev.open
                /\ Curr.close > Curr.open
                /\ Curr.open < Prev.close
                /\ Curr.close > Prev.open
                /\ 2 * (Curr.close - Curr.open) > 3 * (Prev.open - Prev.close)
        /\ (IsBar(Prev, BearTen) /\ IsBar(Curr, BullThirteen))
                => ~Fires("bullish_engulfing")

\* the quoted pair (body 13 against threshold 15), classified
C12_Witness ==
    /\ Classified
    /\ Len(candles) >= 3
    /\ IsBar(Prev, BearTen)
    /\ IsBar(Curr, BullThirteen)
    /\ IsBar(candles[Len(candles) - 2], BullSixteen)

RECURSIVE SumBodies(_)
\* sum of |close - open| over the first k candles
SumBodies(k) ==
    IF k = 0 THEN 0
    ELSE (IF candles[k].close >= candles[k].open
          THEN candles[k].close - candles[k].open
          ELSE candles[k].open - candles[k].close) + SumBodies(k - 1)

CurrBody == IF Curr.close >= Curr.open THEN Curr.close - Curr.open
            ELSE Curr.open - Curr.close
CurrRange == Curr.high - Curr.low

\* C13: doji is reported for the last candle exactly when range > 0,
\* body / range < 0.1 and body < 0.2 * avgBody, and then with confidence
\* 0.7 + (1 - body / range) * 0.2; the candle 100/101/99/100.05 against
\* avgBody = 5 gives a doji of confidence 0.895.
C13_DojiExact ==
    (Classified /\ Len(candles) >= 3) =>
        /\ Fires("doji") <=>
                /\ CurrRange > 0
                /\ 10 * CurrBody < CurrRange
                /\ 5 * CurrBody * Len(candles) < SumBodies(Len(candles))
        /\ \A i \in 1..Len(result.patterns) :
                result.patterns[i].patternName = "doji" =>
                    Eq(result.patterns[i].confidence,
                       R(9 * CurrRange - 2 * CurrBody, 10 * CurrRange))
        /\ (IsBar(Curr, NearDoji) /\ SumBodies(Len(candles)) = Px(5, 0) * Len(candles))
                => \E i \in 1..Len(result.patterns) :
                        /\ result.patterns[i].patternName = "doji"
                        /\ Eq(result.patterns[i].confidence, R(895, 1000))

\* the quoted candle classified against bodies averaging 5
C13_Witness ==
    /\ Classified
    /\ Len(candles) >= 3
    /\ IsBar(Curr, NearDoji)
    /\ SumBodies(Len(candles)) = Px(5, 0) * Len(candles)
    /\ Fires("doji")

Last3(i) == candles[Len(candles) - 3 + i]
UpperWickOf(c) == c.high - (IF c.open > c.close THEN c.open ELSE c.close)

\* C14: whenever the last three bars are bullish, each opens and closes
\* strictly above the bar before it, and each upper wick is < 0.3 * body,
\* three_white_soldiers is reported with confidence exactly 0.85; so for
\* bars 100->105, 105->111, 111->118.
C14_ThreeWhiteSoldiers ==
    (Classified /\ Len(candles) >= 3) =>
        /\ ( /\ \A i \in 1..3 : Last3(i).close > Last3(i).open
             /\ \A i \in 2..3 : /\ Last3(i).open > Last3(i - 1).open
                                 /\ Last3(i).close > Last3(i - 1).close
             /\ \A i \in 1..3 :
                    10 * UpperWickOf(Last3(i)) < 3 * (Last3(i).close - Last3(i).open) )
            => \E i \in 1..Len(result.patterns) :
                    /\ result.patterns[i].patternName = "three_white_soldiers"
                    /\ Eq(result.patterns[i].confidence, R(85, 100))
        /\ (IsBar(Last3(1), Soldier1) /\ IsBar(Last3(2), Soldier2)
                /\ IsBar(Last3(3), Soldier3))
                => Fires("three_white_soldiers")

\* the quoted three bars, classified
C14_Witness ==
    /\ Classified
    /\ Len(candles) >= 3
    /\ IsBar(Last3(1), Soldier1)
    /\ IsBar(Last3(2), Soldier2)
    /\ IsBar(Last3(3), Soldier3)

\* C16: when the last candle has high - low = 0, detectPatterns reports
\* neither a doji nor a marubozu, and no reported signal has a NaN or
\* infinite confidence.
C16_ZeroRangeNoSignal ==
    (Classified /\ Len(candles) >= 3 /\ Curr.high - Curr.low = 0) =>
        /\ ~Fires("doji")
        /\ ~Fires("marubozu")
        /\ \A i \in 1..Len(result.patterns) : isFinite(result.patterns[i].confidence)

-----------------------------------------------------------------------------
(* Properties of the store under configuration updates *)

InUnit(x) == Le(I(0), x) /\ Le(x, I(1))

\* a configuration the specification calls invalid
InvalidConfig(c) ==
    \/ "maxPatterns" \in DOMAIN c /\ c.maxPatterns <= 0
    \/ "minConfidence" \in DOMAIN c /\ ~InUnit(c.minConfidence)
    \/ "highConfidenceThreshold" \in DOMAIN c /\ ~InUnit(c.highConfidenceThreshold)

\* C15: a setConfig carrying maxPatterns <= 0, or minConfidence or
\* highConfidenceThreshold outside [0, 1], leaves the stored configuration
\* and every history as they were, so the stored configuration stays valid.
C15_InvalidConfigRejected ==
    [][(last'.op = "setConfig" /\ last' # last /\ InvalidConfig(last'.arg))
            => (config' = config /\ patterns' = patterns)]_vars

\* C19: every symbol's stored list has length <= the current
\* config.maxPatterns, whatever setConfig did to maxPatterns.
C19_BoundedUnderSetConfig ==
    \A s \in DOMAIN patterns : Len(patterns[s]) <= config.maxPatterns

\* C18: no symbol's stored list holds two entries with the same patternName
\* whose detectedAt values are less than 60000 ms apart.
C18_OnePerPatternPerMinute ==
    \A s \in DOMAIN patterns :
        \A i, j \in 1..Len(patterns[s]) :
            i # j => ~( /\ patterns[s][i].patternName = patterns[s][j].patternName
                        /\ patterns[s][i].detectedAt - patterns[s][j].detectedAt < DedupWindow
                        /\ patterns[s][j].detectedAt - patterns[s][i].detectedAt < DedupWindow )

\* after a configuration update, a signal detected at another instant within
\* the minute of a stored one of its pattern was handed in and dropped
C18_Witness ==
    /\ last.op = "addPattern"
    /\ ~last.kept
    /\ config \notin KeepConfigs
    /\ \E i \in 1..Len(Get(patterns, last.arg.symbol)) :
            /\ patterns[last.arg.symbol][i].patternName = last.arg.patternName
            /\ patterns[last.arg.symbol][i].detectedAt # last.arg.detectedAt

-----------------------------------------------------------------------------
(* Properties of detection feeding the store *)

\* C17: ids are a function of (symbol, last-candle timestamp, patternName,
\* index in the batch) and re-ingestion is idempotent with respect to them:
\* no symbol's stored history holds two entries with the same id.
C17_UniqueIds ==
    \A s \in DOMAIN patterns :
        /\ \A i \in 1..Len(patterns[s]) :
                \E k \in 0..11 :
                    patterns[s][i].id =
                        SignalId(s, patterns[s][i].timestamp, patterns[s][i].patternName, k)
        /\ \A i, j \in 1..Len(patterns[s]) :
                i # j => patterns[s][i].id # patterns[s][j].id

-----------------------------------------------------------------------------
(* Properties of the store's objects *)

RECURSIVE Reverse(_)
Reverse(xs) == IF xs = << >> THEN << >> ELSE Append(Reverse(Tail(xs)), Head(xs))

\* C20: addPattern and clearPatterns never write to a Map or array a reader
\* already holds, so what a reader obtained stays as it saw it; a read
\* returns the history exactly as the last completed write left it; and
\* with two producers adding for one symbol in any order, every signal that
\* was accepted (and not yet evicted by the bound or cleared) is stored.
C20_ConsistentSnapshots ==
    /\ held.mapRef # 0 => heap[held.mapRef] = held.mapSeen
    /\ held.listRef # 0 => heap[held.listRef] = ArrayObject(held.listSeen)
    /\ Deref(heap, root) = patterns
    /\ last.op = "getPatterns" => last.value = Get(patterns, last.symbol)
    /\ \A s \in Symbols :
            Len(accepted[s]) <= config.maxPatterns =>
                Get(patterns, s) = Reverse(accepted[s])

\* a reader holds the list it read for a symbol; since then the other
\* producer's signal was stored for that symbol, next to the first one's
C20_Witness ==
    /\ held.listRef # 0
    /\ held.mapRef # root
    /\ Len(held.listSeen) = 1
    /\ last.op = "addPattern"
    /\ last.kept
    /\ last.arg.symbol = held.symbol
    /\ last.arg.timeframe # held.listSeen[1].timeframe
    /\ Len(Get(patterns, held.symbol)) = 2

-----------------------------------------------------------------------------
(* Properties of the output as a whole *)

ExclusivePairs == {
    <<{"bullish_engulfing"}, {"bearish_engulfing"}>>,
    <<{"bullish_harami"}, {"bearish_harami"}>>,
    <<{"bullish_engulfing", "bearish_engulfing"}, {"bullish_harami", "bearish_harami"}>>,
    <<{"morning_star"}, {"evening_star"}>>,
    <<{"three_white_soldiers"}, {"three_black_crows"}>>
}

\* C26: the output holds each patternName at most once, never holds both
\* members of an exclusive pair (bullish/bearish engulfing, bullish/bearish
\* harami, engulfing/harami, morning/evening star, soldiers/crows), and has
\* at most 12 signals.
C26_ExclusiveRules ==
    Classified =>
        /\ \A i, j \in 1..Len(result.patterns) :
                i # j => result.patterns[i].patternName # result.patterns[j].patternName
        /\ \A pair \in ExclusivePairs :
                ~( /\ \E a \in pair[1] : Fires(a)
                   /\ \E b \in pair[2] : Fires(b) )
        /\ Len(result.patterns) <= 12

\* an output of three signals with a member of an exclusive pair among them
C26_Witness ==
    /\ Classified
    /\ Len(result.patterns) >= 3
    /\ \E pair \in ExclusivePairs : \E a \in pair[1] \cup pair[2] : Fires(a)

-----------------------------------------------------------------------------
(* Properties of the trend context *)

LowerWickOf(c) == (IF c.open < c.close THEN c.open ELSE c.close) - c.low

\* closes of the three bars before the last one strictly falling / rising
FallingBefore ==
    /\ Len(candles) >= 4
    /\ \A k \in (Len(candles) - 2)..(Len(candles) - 1) :
            candles[k].close < candles[k - 1].close
RisingBefore ==
    /\ Len(candles) >= 4
    /\ \A k \in (Len(candles) - 2)..(Len(candles) - 1) :
            candles[k].close > candles[k - 1].close

Bonus(on) == IF on THEN R(15, 100) ELSE I(0)

\* the confidence of a hammer-family signal: base + wick / body / 10 + bonus,
\* capped
WickConfidence(base, wick, bonus, cap) ==
    MathMin(Plus(Plus(base, R(wick, 10 * CurrBody)), bonus), cap)

C22_HangingManImpliesHammer ==
    (Classified /\ Len(candles) >= 3) =>
        \A j \in 1..Len(result.patterns) :
            result.patterns[j].patternName = "hanging_man" =>
                /\ RisingBefore
                /\ 10 * CurrBody * Len(candles) > 3 * SumBodies(Len(candles))
                /\ LowerWickOf(Curr) >= 2 * CurrBody
                /\ 2 * UpperWickOf(Curr) < CurrBody
                /\ 2 * CurrRange * Len(candles) > SumBodies(Len(candles))
                /\ \E i \in 1..(j - 1) :
                        /\ result.patterns[i].patternName = "hammer"
                        /\ Eq(result.patterns[i].confidence,
                              WickConfidence(R(65, 100), LowerWickOf(Curr),
                                             I(0), R(95, 100)))

\* a hanging_man reported next to a hammer whose confidence is below its cap
C22_Witness ==
    /\ Classified
    /\ Fires("hanging_man")
    /\ \E i \in 1..Len(result.patterns) :
            /\ result.patterns[i].patternName = "hammer"
            /\ Lt(result.patterns[i].confidence, R(95, 100))

-----------------------------------------------------------------------------
(* Properties of calculateMACD *)

MacdComputed == macd.computed

\* the macd values from bar `from` on
MacdTail(from) ==
    [k \in 1..(Len(macd.out.macd) - from + 1) |-> macd.out.macd[from + k - 1].value]

\* C23: for every input length the macd, signal and histogram series have
\* the input's length and its times; with fast <= slow the macd line is NaN
\* exactly at indices < slow - 1, and the signal line is NaN exactly at
\* indices < slow + signal - 2, each later value being the EMA, over the
\* signal period, of the valid macd values up to the same bar.
C23_MacdAligned ==
    MacdComputed =>
        LET n == Len(candleData)
            slow == macd.slowPeriod
            sig == macd.signalPeriod
        IN  /\ Len(macd.out.macd) = n
            /\ Len(macd.out.signal) = n
            /\ Len(macd.out.histogram) = n
            /\ \A k \in 1..n :
                    /\ macd.out.macd[k].time = candleData[k].time
                    /\ macd.out.signal[k].time = candleData[k].time
                    /\ macd.out.histogram[k].time = candleData[k].time
            /\ macd.fastPeriod <= slow =>
                    /\ \A k \in 1..n : isNaN(macd.out.macd[k].value) <=> k - 1 < slow - 1
                    /\ \A k \in 1..n :
                            isNaN(macd.out.signal[k].value) <=> k - 1 < slow + sig - 2
                    /\ \A k \in (slow + sig - 1)..n :
                            macd.out.signal[k].value
                                = calculateEMA(MacdTail(slow), sig)[k - (slow - 1)]

\* a MACD with fast < slow whose signal line has a value after its first one
C23_Witness ==
    /\ MacdComputed
    /\ macd.fastPeriod < macd.slowPeriod
    /\ macd.signalPeriod >= 2
    /\ Len(candleData) >= macd.slowPeriod + macd.signalPeriod
    /\ ~isNaN(macd.out.signal[Len(candleData)].value)
    /\ \E k \in 1..Len(candleData) : candleData[k].close # candleData[1].close

-----------------------------------------------------------------------------
(* usePatternDetection: the in-flight flag *)

\* variant: the guard does not look at isDetectingRef
shouldReturn_ignoresFlag(chartLength, detecting) == chartLength < MinChart

\* if (!enabled || !isEnabled || chartData.length < 10 || isDetectingRef.current)
\* return;  for a hook that is enabled
shouldReturn(chartLength, detecting) == chartLength < MinChart \/ detecting

\* variant: the early return on error leaves the flag set
flagAfter_errorKeeps(outcome) == outcome = "error"

\* finally { isDetectingRef.current = false; }
flagAfter(outcome) == FALSE

Outcomes == {"patterns", "error", "threw"}
Triggers == {"timer", "manual"}
DetectBars == {Bar(0, 3, 0, 3), Bar(1, 2, 1, 2)}

\* charts one candle short of MinChart, times 1, 2, ...
DetectCharts ==
    {[k \in 1..(MinChart - 1) |->
        Candle(IF k <= MinChart - 3 THEN Bar(1, 2, 1, 2) ELSE tail[k - (MinChart - 3)], k)] :
        tail \in [1..2 -> DetectBars]}

InitDetect ==
    /\ candles \in DetectCharts
    /\ result = NotRun
    /\ resp = NoResp
    /\ runs = 0
    /\ StoreIdle
    /\ HooksIdle
    /\ IndicatorsIdle

\* one call of detectPatterns() on the chart cs, the runs-th call of this
\* hook, at runs * PollInterval ms: up to the await
detectPatternsCall(cs, trigger, symbol, timeframe) ==
    /\ runs <= MaxPolls
    /\ runs' = runs + 1
    /\ IF shouldReturn(Len(cs), isDetecting)
       THEN /\ UNCHANGED <<isDetecting, request>>
            /\ last' = [op |-> "detectPatterns", trigger |-> trigger, returned |-> "early"]
       ELSE /\ isDetecting' = TRUE
            /\ request' = Append(request,
                    serveResponse(SliceLast(cs, 50), symbol, timeframe,
                                  runs * PollInterval))
            /\ last' = [op |-> "detectPatterns", trigger |-> trigger, returned |-> "awaiting"]
    /\ UNCHANGED <<result, resp, patterns, config, accepted, nIngest>>
    /\ UNCHANGED heapVars
    /\ UNCHANGED marketVars
    /\ UNCHANGED socketVars
    /\ UNCHANGED indicatorVars

\* the interval fires, or the caller uses the returned detectPatterns
DetectPatterns(trigger, symbol, timeframe) ==
    /\ detectPatternsCall(candles, trigger, symbol, timeframe)
    /\ UNCHANGED candles

\* a candle arrives: chartData.length > lastProcessedLengthRef.current, so
\* the effect calls detectPatterns() unless the chart is still short
NewCandles(b, symbol, timeframe) ==
    /\ Len(candles) <= MinChart
    /\ candles' = Append(candles, Candle(b, Len(candles) + 1))
    /\ detectPatternsCall(candles', "candles", symbol, timeframe)

\* the awaited invoke of request i settles: with data.patterns, with an
\* error, or by throwing; only the first adds to the store, and the finally
\* block runs in all three
Settle(i, outcome) ==
    /\ i \in 1..Len(request)
    /\ LET Valid(p) == Ge(p.confidence, config.minConfidence)
           validPatterns ==
                IF outcome = "patterns" /\ request[i].status = 200
                THEN SelectSeq(request[i].patterns, Valid) ELSE << >>
           st == forEachAddPattern([patterns |-> patterns, accepted |-> accepted],
                                   config, validPatterns)
       IN  /\ patterns' = st.patterns
           /\ accepted' = st.accepted
           /\ nIngest' = nIngest + Len(validPatterns)
    /\ last' = [op |-> "settle", outcome |-> outcome]
    /\ isDetecting' = flagAfter(outcome)
    /\ request' = [k \in 1..(Len(request) - 1) |->
                        IF k < i THEN request[k] ELSE request[k + 1]]
    /\ UNCHANGED <<candles, result, resp, runs, config>>
    /\ UNCHANGED heapVars
    /\ UNCHANGED marketVars
    /\ UNCHANGED socketVars
    /\ UNCHANGED indicatorVars

Settles == \E i \in 1..Len(request), outcome \in Outcomes : Settle(i, outcome)

NextDetect ==
    \/ \E trigger \in Triggers, symbol \in Symbols, timeframe \in Timeframes :
            DetectPatterns(trigger, symbol, timeframe)
    \/ \E b \in DetectBars, symbol \in Symbols, timeframe \in Timeframes :
            NewCandles(b, symbol, timeframe)
    \/ Settles

SpecDetect == InitDetect /\ [][NextDetect]_vars

\* the promise returned by supabase.functions.invoke settles, and the event
\* loop then runs the rest of detectPatterns
SpecDetectFair == SpecDetect /\ WF_vars(Settles)

\* a detectPatterns call was made in this step while a request was awaited
CalledInFlight ==
    /\ runs' # runs
    /\ request # NoRequest

\* C27: at most one pattern-detection request is in flight at any time; a
\* detectPatterns call made (by new candles, the timer or manually) while a
\* request is awaited issues no request and adds nothing to the store
C27_OneRequestInFlight ==
    /\ [](Len(request) <= 1)
    /\ [][CalledInFlight =>
            /\ request' = request
            /\ patterns' = patterns
            /\ nIngest' = nIngest
            /\ last'.returned = "early"]_vars

\* a call made on a long enough chart returned early because of the flag
C27_Witness ==
    /\ last.op = "detectPatterns"
    /\ last.returned = "early"
    /\ Len(candles) >= MinChart
    /\ Len(request) = 1
    /\ isDetecting

-----------------------------------------------------------------------------
(* useWebSocketPrice: connection, reconnection and teardown *)

MaxSockets == 4
MaxRuns == 2
MaxAttempts == 5
BaseDelay == 1000
MaxDelay == 30000

\* variant: one more attempt is allowed
shouldReconnect_inclusive(attempts) == attempts <= MaxAttempts

\* if (enabled && reconnectAttemptsRef.current < 5), in a closure whose
\* `enabled` is true
shouldReconnect(attempts) == attempts < MaxAttempts

\* Math.min(1000 * Math.pow(2, reconnectAttemptsRef.current), 30000)
reconnectDelay(attempts) ==
    IF BaseDelay * 2^attempts < MaxDelay THEN BaseDelay * 2^attempts ELSE MaxDelay

\* cap on the sockets created: a history in which nothing has reset the
\* attempt counter may run past the last reconnect the code allows
SocketCap == IF schedule.pristine THEN MaxAttempts + 2 ELSE MaxSockets

Live(sock) == sock.state \in {"connecting", "open"}

\* ws.close(): a socket that is connecting or open starts closing, and its
\* close event is delivered later
closeSocket(ss, id) ==
    IF Live(ss[id]) THEN [ss EXCEPT ![id].state = "closing"] ELSE ss

\* connect() of the closure of effect run g, with enabled and a symbol: the
\* sockets and wsRef.current it leaves
connect(ss, ref, g) ==
    LET cleaned == IF ref # NoSocket THEN closeSocket(ss, ref) ELSE ss
    IN  [sockets |-> Append(cleaned, [state |-> "connecting", run |-> g]),
         wsRef |-> Len(ss) + 1]

\* clearTimeout(reconnectTimeoutRef.current)
clearTimeout(ts, tref) ==
    IF tref # NoTimer /\ ts[tref].state = "pending"
    THEN [ts EXCEPT ![tref].state = "cleared"] ELSE ts

InitSocket ==
    /\ ClassifierIdle
    /\ StoreIdle
    /\ IndicatorsIdle
    /\ HooksIdle

\* the first run of the effects: connect(), then reconnectAttemptsRef = 0
Mount ==
    /\ effect = NotMounted
    /\ effect' = [run |-> 1, mounted |-> TRUE]
    /\ LET c == connect(sockets, wsRef, 1)
       IN  /\ sockets' = c.sockets
           /\ wsRef' = c.wsRef
    /\ reconnectAttempts' = 0
    /\ UNCHANGED <<timers, reconnectTimeoutRef, schedule>>
    /\ UNCHANGED classifierVars
    /\ UNCHANGED storeVars
    /\ UNCHANGED indicatorVars
    /\ UNCHANGED marketVars
    /\ UNCHANGED detectorVars

\* the symbol changes: the cleanup of the old effect, then connect() of the
\* new closure, then the reset effect
ChangeSymbol ==
    /\ effect.mounted
    /\ effect.run < MaxRuns
    /\ Len(sockets) < MaxSockets
    /\ effect' = [run |-> effect.run + 1, mounted |-> TRUE]
    /\ timers' = clearTimeout(timers, reconnectTimeoutRef)
    /\ LET cleaned == IF wsRef # NoSocket THEN closeSocket(sockets, wsRef) ELSE sockets
           c == connect(cleaned, wsRef, effect.run + 1)
       IN  /\ sockets' = c.sockets
           /\ wsRef' = c.wsRef
    /\ reconnectAttempts' = 0
    /\ schedule' = [schedule EXCEPT !.pristine = FALSE]
    /\ UNCHANGED reconnectTimeoutRef
    /\ UNCHANGED classifierVars
    /\ UNCHANGED storeVars
    /\ UNCHANGED indicatorVars
    /\ UNCHANGED marketVars
    /\ UNCHANGED detectorVars

\* the component unmounts: the cleanup of the effect
Unmount ==
    /\ effect.mounted
    /\ effect' = [effect EXCEPT !.mounted = FALSE]
    /\ timers' = clearTimeout(timers, reconnectTimeoutRef)
    /\ sockets' = IF wsRef # NoSocket THEN closeSocket(sockets, wsRef) ELSE sockets
    /\ UNCHANGED <<wsRef, reconnectAttempts, reconnectTimeoutRef, schedule>>
    /\ UNCHANGED classifierVars
    /\ UNCHANGED storeVars
    /\ UNCHANGED indicatorVars
    /\ UNCHANGED marketVars
    /\ UNCHANGED detectorVars

\* ws.onopen of socket id
OnOpen(id) ==
    /\ id \in 1..Len(sockets)
    /\ sockets[id].state = "connecting"
    /\ sockets' = [sockets EXCEPT ![id].state = "open"]
    /\ reconnectAttempts' = 0
    /\ schedule' = [schedule EXCEPT !.pristine = FALSE]
    /\ UNCHANGED <<wsRef, timers, reconnectTimeoutRef, effect>>
    /\ UNCHANGED classifierVars
    /\ UNCHANGED storeVars
    /\ UNCHANGED indicatorVars
    /\ UNCHANGED marketVars
    /\ UNCHANGED detectorVars

\* ws.onclose of socket id: the connection failed, the server closed it, or
\* a close() called on it has completed
OnClose(id) ==
    /\ id \in 1..Len(sockets)
    /\ sockets[id].state # "closed"
    /\ sockets' = [sockets EXCEPT ![id].state = "closed"]
    /\ wsRef' = NoSocket
    /\ IF shouldReconnect(reconnectAttempts)
       THEN LET delay == reconnectDelay(reconnectAttempts)
            IN  /\ timers' = Append(timers, [state |-> "pending",
                                             run |-> sockets[id].run,
                                             delay |-> delay])
                /\ reconnectTimeoutRef' = Len(timers) + 1
                /\ schedule' = [schedule EXCEPT !.delays = Append(@, delay)]
       ELSE UNCHANGED <<timers, reconnectTimeoutRef, schedule>>
    /\ UNCHANGED <<reconnectAttempts, effect>>
    /\ UNCHANGED classifierVars
    /\ UNCHANGED storeVars
    /\ UNCHANGED indicatorVars
    /\ UNCHANGED marketVars
    /\ UNCHANGED detectorVars

\* the reconnect timeout t runs: reconnectAttemptsRef.current++; connect()
TimerFires(t) ==
    /\ t \in 1..Len(timers)
    /\ timers[t].state = "pending"
    /\ Len(sockets) < SocketCap
    /\ timers' = [timers EXCEPT ![t].state = "fired"]
    /\ reconnectAttempts' = reconnectAttempts + 1
    /\ LET c == connect(sockets, wsRef, timers[t].run)
       IN  /\ sockets' = c.sockets
           /\ wsRef' = c.wsRef
    /\ UNCHANGED <<reconnectTimeoutRef, effect, schedule>>
    /\ UNCHANGED classifierVars
    /\ UNCHANGED storeVars
    /\ UNCHANGED indicatorVars
    /\ UNCHANGED marketVars
    /\ UNCHANGED detectorVars

\* the caller uses the returned reconnect()
Reconnect ==
    /\ effect.mounted
    /\ Len(sockets) < MaxSockets
    /\ reconnectAttempts' = 0
    /\ LET c == connect(sockets, wsRef, effect.run)
       IN  /\ sockets' = c.sockets
           /\ wsRef' = c.wsRef
    /\ schedule' = [schedule EXCEPT !.pristine = FALSE]
    /\ UNCHANGED <<timers, reconnectTimeoutRef, effect>>
    /\ UNCHANGED classifierVars
    /\ UNCHANGED storeVars
    /\ UNCHANGED indicatorVars
    /\ UNCHANGED marketVars
    /\ UNCHANGED detectorVars

NextSocket ==
    \/ Mount
    \/ ChangeSymbol
    \/ Unmount
    \/ \E id \in 1..Len(sockets) : OnOpen(id)
    \/ \E id \in 1..Len(sockets) : OnClose(id)
    \/ \E t \in 1..Len(timers) : TimerFires(t)
    \/ Reconnect

SpecSocket == InitSocket /\ [][NextSocket]_vars

\* a socket reached onopen in this step
Opened ==
    \E id \in 1..Len(sockets) :
        sockets[id].state = "connecting" /\ sockets'[id].state = "open"

ReplacedCloses ==
    \E id \in 1..Len(sockets) :
        sockets[id].state = "closing" /\ sockets'[id].state = "closed"

\* C30: at most one socket is live; wsRef refers to the most recently
\* created socket while it is open; the close event of a socket that was
\* closed by connect() or by the cleanup schedules no reconnect; and every
\* socket is created by the closure of the current, still mounted effect
C30_OneLiveSocket ==
    /\ [](Cardinality({id \in 1..Len(sockets) : Live(sockets[id])}) <= 1)
    /\ []((sockets # << >> /\ sockets[Len(sockets)].state = "open")
            => wsRef = Len(sockets))
    /\ [][ReplacedCloses => timers' = timers]_vars
    /\ [][Len(sockets') > Len(sockets) =>
            /\ effect'.mounted
            /\ sockets'[Len(sockets')].run = effect'.run]_vars


====
